---- MODULE Spec2Model ----
(***************************************************************************)
(* A model of the HybridGraphRAG repository: the graph extraction          *)
(* orchestrator (services/mistral.service.ts), the persistence of journals *)
(* and graphs (repositories/journal.repository.ts), the hybrid search      *)
(* (services/query.service.ts, repositories/search.repository.ts) and the  *)
(* entity and relation utilities (lib/graph-utils.ts).                     *)
(*                                                                         *)
(* Strings that the code inspects character by character (entity names,    *)
(* entity types, relation verbs) are sequences of one-character strings.   *)
(* Each group of operations has its own variables and its own              *)
(* specification; a specification leaves the other groups' variables at    *)
(* their parked values.                                                    *)
(***************************************************************************)
EXTENDS Integers, Sequences, FiniteSets, TLC

VARIABLES
  \* extractGraphsInBatches and the extract-graph route
  chunks,        \* the submitted chunks (their ids, in order)
  bPc,           \* position of extractGraphsInBatches: "loop", "await", "returned"
  bI,            \* the loop variable i (0-based index of the batch start)
  chunkState,    \* per chunk position: "unissued", "fetch", "body", "done"
  chunkResult,   \* per chunk position: the settled value of extractGraphFromChunk
  requests,      \* per chunk position: number of requests sent to the collaborator
  graphs,        \* the local array graphs
  extractResponse, \* the route's JSON response, or Null
  overtaken,     \* whether a request has completed before that of an earlier chunk
  \* the database tables
  dbJournals,    \* journals: the ids of the rows
  dbEmbeddings,  \* embeddings: rows [journal_id, chunk_index]
  dbEntities,    \* entities: rows [id, name, type]
  dbRelations,   \* relations: rows [id, source_id, relation, target_id, journal_id]
  \* saveToDatabase and the save-to-db route
  sPc,           \* position of saveToDatabase: "idle" or the step that is awaited
  sParams,       \* the request body
  sJournal,      \* journal.id
  sCounts,       \* the counts of the steps done so far
  sEntityIdMap,  \* entityIdMap, as its entries in the Map's order
  saveResponse,  \* the route's JSON response, or Null
  saves,         \* number of requests so far
  \* hybridSearch and the query route
  hs,            \* per request: the position and the locals of hybridSearch
  embeddingPipeline, \* the module variable embeddingPipeline: Null or a handle
  pipelineLoads, \* number of times the loader pipeline(...) was invoked
  faults,        \* collaborator failures that may still happen
  callers,       \* the requests that are made
  deterministic, \* whether a collaborator answers equal requests equally
  memo,          \* the answered requests: pairs <<request, reply>>
  \* calls of the library functions
  fnArgs,        \* the arguments of the call
  fnResult,      \* the values returned so far, in the order of the calls
  fnStep,        \* number of calls made
  \* the upload page
  page,          \* the React state of UploadPage and the position of its handlers
  cc             \* the call of createChunks: its arguments, locals and position

batchVars == <<chunks, bPc, bI, chunkState, chunkResult, requests, graphs, extractResponse, overtaken>>

dbVars == <<dbJournals, dbEmbeddings, dbEntities, dbRelations>>
saveVars == <<sPc, sParams, sJournal, sCounts, sEntityIdMap, saveResponse, saves>>

searchVars == <<hs, embeddingPipeline, pipelineLoads, faults, callers, deterministic, memo>>

fnVars == <<fnArgs, fnResult, fnStep>>

pageVars == <<page, cc>>

vars == <<batchVars, dbVars, saveVars, searchVars, fnVars, pageVars>>

\* what the operations of one group leave alone
BatchFrame == UNCHANGED <<dbVars, saveVars, searchVars, fnVars, pageVars>>
SaveFrame == UNCHANGED <<batchVars, searchVars, fnVars, pageVars>>
SearchFrame == UNCHANGED <<batchVars, dbVars, saveVars, pipelineLoads, embeddingPipeline, callers, deterministic, fnVars, pageVars>>
SearchLoadFrame == UNCHANGED <<batchVars, dbVars, saveVars, callers, deterministic, fnVars, pageVars>>
FnFrame == UNCHANGED <<batchVars, dbVars, saveVars, searchVars, fnArgs, pageVars>>
ChunksFrame == UNCHANGED <<batchVars, dbVars, saveVars, searchVars, fnVars, page>>
PageFrame == UNCHANGED <<batchVars, dbVars, saveVars, searchVars, fnVars, cc>>

Null == [null |-> TRUE]

(***************************************************************************)
(* Strings as sequences of characters.                                     *)
(***************************************************************************)
UpperLetters == <<"A","B","C","D","E","F","G","H","I","J","K","L","M","N","O","P","Q","R","S","T","U","V","W","X","Y","Z">>
LowerLetters == <<"a","b","c","d","e","f","g","h","i","j","k","l","m","n","o","p","q","r","s","t","u","v","w","x","y","z">>
Digits == {"0","1","2","3","4","5","6","7","8","9"}
WhiteSpace == {" ", "\t", "\n", "\r"}

LowerChar(ch) ==
  IF \E i \in 1..26 : UpperLetters[i] = ch
  THEN LowerLetters[CHOOSE i \in 1..26 : UpperLetters[i] = ch]
  ELSE ch

UpperChar(ch) ==
  IF \E i \in 1..26 : LowerLetters[i] = ch
  THEN UpperLetters[CHOOSE i \in 1..26 : LowerLetters[i] = ch]
  ELSE ch

toLowerCase(s) == [i \in 1..Len(s) |-> LowerChar(s[i])]
toUpperCase(s) == [i \in 1..Len(s) |-> UpperChar(s[i])]

\* String.prototype.trim: drop leading and trailing white space
RECURSIVE trimStart(_)
trimStart(s) ==
  IF s # <<>> /\ Head(s) \in WhiteSpace THEN trimStart(Tail(s)) ELSE s

RECURSIVE trimEnd(_)
trimEnd(s) ==
  IF s # <<>> /\ s[Len(s)] \in WhiteSpace
  THEN trimEnd(SubSeq(s, 1, Len(s) - 1))
  ELSE s

trim(s) == trimEnd(trimStart(s))

\* replace(/\s+/g, ' '): every maximal run of white space becomes one space
RECURSIVE collapseWhitespace(_)
collapseWhitespace(s) ==
  IF s = <<>> THEN <<>>
  ELSE IF Head(s) \in WhiteSpace
       THEN <<" ">> \o collapseWhitespace(trimStart(s))
       ELSE <<Head(s)>> \o collapseWhitespace(Tail(s))

\* replace(/[...]/g, ''): drop every character of the class
removeChars(s, class) == SelectSeq(s, LAMBDA ch : ch \notin class)

\* replace(/\.$/, ''): drop one trailing period
stripTrailingPeriod(s) ==
  IF s # <<>> /\ s[Len(s)] = "." THEN SubSeq(s, 1, Len(s) - 1) ELSE s

\* String.prototype.includes
includes(s, sub) ==
  \E i \in 0..(Len(s) - Len(sub)) : SubSeq(s, i + 1, i + Len(sub)) = sub

\* Array.prototype.slice(0, n)
sliceTo(seq, n) == SubSeq(seq, 1, IF Len(seq) < n THEN Len(seq) ELSE n)

Range(seq) == {seq[i] : i \in 1..Len(seq)}

(***************************************************************************)
(* lib/graph-utils.ts                                                      *)
(***************************************************************************)
S_PLANT == <<"P","L","A","N","T">>
S_DISEASE == <<"D","I","S","E","A","S","E">>
S_SYMPTOM == <<"S","Y","M","P","T","O","M">>
S_COMPOUND == <<"C","O","M","P","O","U","N","D">>
S_EFFECT == <<"E","F","F","E","C","T">>
S_UNKNOWN == <<"U","N","K","N","O","W","N">>
S_treats == <<"t","r","e","a","t","s">>
S_reduces == <<"r","e","d","u","c","e","s">>
S_alleviates == <<"a","l","l","e","v","i","a","t","e","s">>
S_prevents == <<"p","r","e","v","e","n","t","s">>
S_cures == <<"c","u","r","e","s">>
S_has_effect == <<"h","a","s","_","e","f","f","e","c","t">>
S_contains == <<"c","o","n","t","a","i","n","s">>
S_causes == <<"c","a","u","s","e","s">>

\* normalizeEntityName: lower-case, trim, collapse white space, remove
\* ()[] and then one trailing period, in this order
normalizeEntityName(name) ==
  stripTrailingPeriod(
    removeChars(
      collapseWhitespace(trim(toLowerCase(name))),
      {"(", ")", "[", "]"}))

skipTerms ==
  {
    <<"t","e","m","p","e","r","a","t","u","r","e">>, <<"t","i","m","e">>, <<"c","o","n","d","i","t","i","o","n","s">>,
    <<"c","o","n","t","r","o","l","l","e","d"," ","c","o","n","d","i","t","i","o","n","s">>, <<"d","a","i","l","y"," ","c","y","c","l","e">>, <<"e","x","p","e","r","i","m","e","n","t">>,
    <<"s","t","u","d","y">>, <<"r","e","s","e","a","r","c","h">>, <<"a","n","a","l","y","s","i","s">>,
    <<"t","e","s","t">>, <<"r","e","s","u","l","t">>, <<"d","a","t","a">>,
    <<"g","r","o","u","p">>, <<"c","o","n","t","r","o","l">>, <<"s","a","m","p","l","e">>,
    <<"p","r","o","c","e","d","u","r","e">>, <<"p","r","o","c","e","s","s">>, <<"m","e","a","s","u","r","e","m","e","n","t">>,
    <<"o","b","s","e","r","v","a","t","i","o","n">>, <<"m","a","t","e","r","i","a","l">>, <<"e","q","u","i","p","m","e","n","t">>,
    <<"a","p","p","a","r","a","t","u","s">>, <<"d","e","v","i","c","e">>, <<"i","n","s","t","r","u","m","e","n","t">>,
    <<"s","o","f","t","w","a","r","e">>, <<"p","r","o","g","r","a","m">>, <<"t","o","o","l">>,
    <<"t","e","c","h","n","i","q","u","e">>, <<"p","r","o","t","o","c","o","l">>, <<"s","t","a","n","d","a","r","d">>,
    <<"r","e","f","e","r","e","n","c","e">>, <<"b","a","s","e","l","i","n","e">>, <<"c","o","m","p","a","r","i","s","o","n">>,
    <<"p","r","e","p","a","r","a","t","i","o","n">>, <<"s","o","l","u","t","i","o","n">>, <<"m","i","x","t","u","r","e">>,
    <<"s","u","s","p","e","n","s","i","o","n">>, <<"c","h","r","o","m","a","t","o","g","r","a","p","h","y">>, <<"s","p","e","c","t","r","o","s","c","o","p","y">>,
    <<"m","i","c","r","o","s","c","o","p","y">>, <<"i","n","c","u","b","a","t","i","o","n">>, <<"c","e","n","t","r","i","f","u","g","a","t","i","o","n">>,
    <<"f","i","l","t","r","a","t","i","o","n">>, <<"d","i","l","u","t","i","o","n">>, <<"r","o","o","m"," ","t","e","m","p","e","r","a","t","u","r","e">>,
    <<"a","m","b","i","e","n","t"," ","t","e","m","p","e","r","a","t","u","r","e">>, <<"d","a","r","k"," ","c","o","n","d","i","t","i","o","n","s">>, <<"s","t","a","t","i","s","t","i","c","a","l"," ","a","n","a","l","y","s","i","s">>,
    <<"s","i","g","n","i","f","i","c","a","n","c","e">>, <<"p","-","v","a","l","u","e">>, <<"c","o","r","r","e","l","a","t","i","o","n">>
  }

measureUnits ==
  {
    <<"m","i","n","u","t","e">>, <<"m","i","n","u","t","e","s">>, <<"h","o","u","r">>, <<"h","o","u","r","s">>, <<"d","a","y">>, <<"d","a","y","s">>,
    <<"w","e","e","k">>, <<"w","e","e","k","s">>, <<"m","o","n","t","h">>, <<"m","o","n","t","h","s">>, <<"°","c">>, <<"m","l">>,
    <<"m","g">>, <<"g">>, <<"k","g">>, <<"µ","g">>, <<"n","m">>, <<"r","p","m">>
  }

genericVerbs ==
  {
    <<"p","e","r","f","o","r","m">>, <<"c","o","n","d","u","c","t">>, <<"c","a","r","r","y"," ","o","u","t">>,
    <<"m","e","a","s","u","r","e">>, <<"o","b","s","e","r","v","e">>, <<"r","e","c","o","r","d">>,
    <<"c","o","l","l","e","c","t">>, <<"o","b","t","a","i","n">>, <<"p","r","e","p","a","r","e">>,
    <<"s","t","o","r","e">>
  }

keepTypes ==
  {
    <<"p","l","a","n","t">>, <<"d","i","s","e","a","s","e">>, <<"s","y","m","p","t","o","m">>
  }

therapeuticMethodWords ==
  {
    <<"d","o","s","e">>, <<"a","d","m","i","n","i","s","t","r","a","t","i","o","n">>, <<"i","n","f","u","s","i","o","n">>,
    <<"d","e","c","o","c","t","i","o","n">>, <<"e","x","t","r","a","c","t">>, <<"p","r","e","p","a","r","a","t","i","o","n">>,
    <<"o","r","a","l">>, <<"t","o","p","i","c","a","l">>
  }

therapeuticEffectWords ==
  {
    <<"a","n","t","i">>, <<"a","c","t","i","v","i","t","y">>, <<"t","h","e","r","a","p","e","u","t","i","c">>,
    <<"m","e","d","i","c","i","n","a","l">>
  }

experimentalMethodWords ==
  {
    <<"c","h","r","o","m","a","t","o","g","r","a","p","h","y">>, <<"s","p","e","c","t","r","o","s","c","o","p","y">>, <<"a","n","a","l","y","s","i","s">>,
    <<"a","s","s","a","y">>, <<"m","e","a","s","u","r","e","m","e","n","t">>, <<"d","e","t","e","c","t","i","o","n">>
  }

\* /^\d+[\s°]*(minutes?|hours?|...|rpm)$/i on the lower-cased name
RECURSIVE dropWhile(_, _)
dropWhile(s, class) ==
  IF s # <<>> /\ Head(s) \in class THEN dropWhile(Tail(s), class) ELSE s

isBareMeasurement(name) ==
  /\ name # <<>>
  /\ Head(name) \in Digits
  /\ \E k \in 0..Len(name) :
       LET rest == SubSeq(name, k + 1, Len(name))
           lead == SubSeq(name, 1, k)
       IN  /\ rest \in measureUnits
           /\ dropWhile(dropWhile(lead, Digits), WhiteSpace \cup {"°"}) = <<>>

\* mutant: the always-keep types are tested before the noise rules
filterEntity_TypesFirst(entity) ==
  LET name == toLowerCase(entity.name)
      type == toLowerCase(entity.type)
      anyIn(s, words) == \E w \in words : includes(s, w)
  IN  IF Len(name) < 3 THEN FALSE
      ELSE IF anyIn(type, keepTypes) THEN TRUE
      ELSE IF name \in skipTerms THEN FALSE
      ELSE IF isBareMeasurement(name) THEN FALSE
      ELSE IF name \in genericVerbs THEN FALSE
      ELSE IF includes(type, <<"d","o","s","a","g","e">>) THEN TRUE
      ELSE IF includes(type, <<"m","e","t","h","o","d">>)
              /\ anyIn(name, therapeuticMethodWords) THEN TRUE
      ELSE IF includes(type, <<"e","f","f","e","c","t">>)
              /\ anyIn(name, therapeuticEffectWords) THEN TRUE
      ELSE IF includes(type, <<"c","o","m","p","o","u","n","d">>)
              /\ Len(name) > 5 THEN TRUE
      ELSE IF includes(type, <<"m","e","c","h","a","n","i","s","m">>)
              /\ Len(name) < 15 THEN FALSE
      ELSE IF includes(type, <<"m","e","t","h","o","d">>)
              /\ anyIn(name, experimentalMethodWords) THEN FALSE
      ELSE TRUE

\* filterEntity: the verdict of the first rule that matches, TRUE by default
filterEntity(entity) ==
  LET name == toLowerCase(entity.name)
      type == toLowerCase(entity.type)
      anyIn(s, words) == \E w \in words : includes(s, w)
  IN  IF Len(name) < 3 THEN FALSE
      ELSE IF name \in skipTerms THEN FALSE
      ELSE IF isBareMeasurement(name) THEN FALSE
      ELSE IF name \in genericVerbs THEN FALSE
      ELSE IF anyIn(type, keepTypes) THEN TRUE
      ELSE IF includes(type, <<"d","o","s","a","g","e">>) THEN TRUE
      ELSE IF includes(type, <<"m","e","t","h","o","d">>)
              /\ anyIn(name, therapeuticMethodWords) THEN TRUE
      ELSE IF includes(type, <<"e","f","f","e","c","t">>)
              /\ anyIn(name, therapeuticEffectWords) THEN TRUE
      ELSE IF includes(type, <<"c","o","m","p","o","u","n","d">>)
              /\ Len(name) > 5 THEN TRUE
      ELSE IF includes(type, <<"m","e","c","h","a","n","i","s","m">>)
              /\ Len(name) < 15 THEN FALSE
      ELSE IF includes(type, <<"m","e","t","h","o","d">>)
              /\ anyIn(name, experimentalMethodWords) THEN FALSE
      ELSE TRUE

\* the Map key `${normalizedName}|${type.toLowerCase()}`
entityKey(entity) ==
  normalizeEntityName(entity.name) \o <<"|">> \o toLowerCase(entity.type)

\* deduplicateEntities: a Map keyed by entityKey, set only when the key is new
RECURSIVE deduplicateEntitiesFrom(_, _, _)
deduplicateEntitiesFrom(entities, seen, acc) ==
  IF entities = <<>> THEN acc
  ELSE LET e == Head(entities)
           k == entityKey(e)
       IN  IF k \in seen
           THEN deduplicateEntitiesFrom(Tail(entities), seen, acc)
           ELSE deduplicateEntitiesFrom(Tail(entities), seen \cup {k},
                  Append(acc, [name |-> e.name, type |-> toUpperCase(e.type)]))

deduplicateEntities(entities) == deduplicateEntitiesFrom(entities, {}, <<>>)

\* mutant: the names are compared without normalization
filterRelationsByEntities_Literal(relations, validEntities) ==
  LET entityNames == {e.name : e \in Range(validEntities)}
  IN  SelectSeq(relations, LAMBDA rel :
        /\ rel.source # <<>> /\ rel.relation # <<>> /\ rel.target # <<>>
        /\ rel.source \in entityNames
        /\ rel.target \in entityNames)

\* filterRelationsByEntities
filterRelationsByEntities(relations, validEntities) ==
  LET entityNames == {normalizeEntityName(e.name) : e \in Range(validEntities)}
  IN  SelectSeq(relations, LAMBDA rel :
        /\ rel.source # <<>> /\ rel.relation # <<>> /\ rel.target # <<>>
        /\ normalizeEntityName(rel.source) \in entityNames
        /\ normalizeEntityName(rel.target) \in entityNames)

\* the Set key `${source}|${relation}|${target}`
relationKey(relation) ==
  relation.source \o <<"|">> \o relation.relation \o <<"|">> \o relation.target

\* deduplicateRelations
RECURSIVE deduplicateRelationsFrom(_, _, _)
deduplicateRelationsFrom(relations, seen, acc) ==
  IF relations = <<>> THEN acc
  ELSE LET r == Head(relations)
           k == relationKey(r)
       IN  IF k \in seen
           THEN deduplicateRelationsFrom(Tail(relations), seen, acc)
           ELSE deduplicateRelationsFrom(Tail(relations), seen \cup {k}, Append(acc, r))

deduplicateRelations(relations) == deduplicateRelationsFrom(relations, {}, <<>>)

(***************************************************************************)
(* services/mistral.service.ts: extractGraphFromChunk, extractGraphManually*)
(* and extractGraphsInBatches; app/api/extract-graph/route.ts              *)
(***************************************************************************)
BATCH_SIZE == 5
MaxEntitiesPerChunk == 15

\* bounds of the model
MaxChunks == 6

N_Ginger == <<"G","i","n","g","e","r">>
N_ginger == <<"g","i","n","g","e","r">>
N_headache == <<"h","e","a","d","a","c","h","e">>
N_time == <<"t","i","m","e">>
S_condition == <<"c","o","n","d","i","t","i","o","n">>

\* What the extraction collaborator can answer for a chunk. parses says
\* whether parseJSONResponse succeeds on the content; entities and relations
\* are then the parsed graphData's lists, and otherwise what the regular
\* expressions of extractGraphManually find in the raw content.
ExtractionContents ==
  { [parses |-> TRUE,
     entities |-> << [name |-> N_Ginger, type |-> S_PLANT],
                     [name |-> N_headache, type |-> S_SYMPTOM],
                     [name |-> N_time, type |-> S_condition] >>,
     relations |-> << [source |-> N_ginger, relation |-> S_treats, target |-> N_headache],
                      [source |-> N_Ginger, relation |-> S_causes, target |-> N_time] >>],
    [parses |-> TRUE, entities |-> <<>>, relations |-> <<>>],
    [parses |-> FALSE,
     entities |-> << [name |-> N_Ginger, type |-> S_PLANT] >>,
     relations |-> <<>>],
    [parses |-> FALSE,
     entities |-> << [name |-> N_time, type |-> S_condition] >>,
     relations |-> <<>>] }

\* mutant: the relations are checked against all the entities of the content
filteredRelationsOf_AllEntities(content) ==
  filterRelationsByEntities(content.relations, content.entities)

\* the filter-and-limit pipeline shared by both paths
filteredEntitiesOf(content) ==
  sliceTo(SelectSeq(content.entities, filterEntity), MaxEntitiesPerChunk)

filteredRelationsOf(content) ==
  filterRelationsByEntities(content.relations, filteredEntitiesOf(content))

\* extractGraphManually: a result only when an entity or a relation survives
extractGraphManually(chunkId, content) ==
  IF Len(filteredEntitiesOf(content)) > 0 \/ Len(filteredRelationsOf(content)) > 0
  THEN [chunkId |-> chunkId,
        entities |-> filteredEntitiesOf(content),
        relations |-> filteredRelationsOf(content)]
  ELSE Null

\* extractGraphFromChunk once the response body has been read
extractGraphFromContent(chunkId, content) ==
  IF content.parses
  THEN [chunkId |-> chunkId,
        entities |-> filteredEntitiesOf(content),
        relations |-> filteredRelationsOf(content)]
  ELSE extractGraphManually(chunkId, content)

Positions == 1..Len(chunks)

\* mutant: the whole remainder of the list is taken as one batch
BatchOf_Unbounded(i) == {p \in Positions : i < p}

\* mutant: every batch is taken from the start of the list
BatchOf_FromStart(i) == {p \in Positions : p <= i + BATCH_SIZE}

\* chunks.slice(i, i + batchSize), as positions
BatchOf(i) == {p \in Positions : i < p /\ p <= i + BATCH_SIZE}

InFlight == {p \in Positions : chunkState[p] \in {"fetch", "body"}}

\* the request of chunk p completes while that of an earlier chunk is pending
Overtakes(p) == \E q \in InFlight : q < p

\* mutant: the results of a batch are appended last chunk first
RECURSIVE successfulResults_Reversed(_, _)
successfulResults_Reversed(from, to) ==
  IF from > to THEN <<>>
  ELSE successfulResults_Reversed(from + 1, to)
       \o (IF chunkResult[from] = Null THEN <<>> ELSE <<chunkResult[from]>>)

BatchInit ==
  /\ chunks = <<>>
  /\ bPc = "idle"
  /\ bI = 0
  /\ chunkState = <<>>
  /\ chunkResult = <<>>
  /\ requests = <<>>
  /\ graphs = <<>>
  /\ extractResponse = Null
  /\ overtaken = FALSE

\* POST /api/extract-graph with a body that is rejected before any extraction
ExtractGraphRejected ==
  /\ bPc = "idle"
  /\ \E why \in {"Invalid chunks data", "MISTRAL_API_KEY not configured"} :
       extractResponse' = [error |-> why,
                           status |-> IF why = "Invalid chunks data" THEN 400 ELSE 500]
  /\ bPc' = "returned"
  /\ UNCHANGED <<chunks, bI, chunkState, chunkResult, requests, graphs, overtaken>>
  /\ BatchFrame

\* POST /api/extract-graph with n chunks: extractGraphsInBatches starts
ExtractGraphPOST ==
  /\ bPc = "idle"
  /\ \E n \in 0..MaxChunks :
       /\ chunks' = [p \in 1..n |-> p]
       /\ chunkState' = [p \in 1..n |-> "unissued"]
       /\ chunkResult' = [p \in 1..n |-> Null]
       /\ requests' = [p \in 1..n |-> 0]
  /\ bI' = 0
  /\ graphs' = <<>>
  /\ bPc' = "loop"
  /\ UNCHANGED <<extractResponse, overtaken>>
  /\ BatchFrame

\* batch.map(chunk => extractGraphFromChunk(chunk, apiKey)): every call of
\* the batch runs to its fetch before extractGraphsInBatches awaits
IssueBatch ==
  /\ bPc = "loop"
  /\ bI < Len(chunks)
  /\ chunkState' = [p \in Positions |->
                      IF p \in BatchOf(bI) THEN "fetch" ELSE chunkState[p]]
  /\ requests' = [p \in Positions |->
                    IF p \in BatchOf(bI) THEN requests[p] + 1 ELSE requests[p]]
  /\ bPc' = "await"
  /\ UNCHANGED <<chunks, bI, chunkResult, graphs, extractResponse, overtaken>>
  /\ BatchFrame

\* the fetch of one chunk settles: a network fault (caught, null), a
\* non-2xx status (null) or a 2xx status (the body is read next)
FetchSettles(p) ==
  /\ chunkState[p] = "fetch"
  /\ \E outcome \in {"fault", "non2xx", "ok"} :
       IF outcome = "ok"
       THEN /\ chunkState' = [chunkState EXCEPT ![p] = "body"]
            /\ UNCHANGED chunkResult
       ELSE /\ chunkState' = [chunkState EXCEPT ![p] = "done"]
            /\ chunkResult' = [chunkResult EXCEPT ![p] = Null]
  /\ overtaken' = (overtaken \/ (chunkState'[p] = "done" /\ Overtakes(p)))
  /\ UNCHANGED <<chunks, bPc, bI, requests, graphs, extractResponse>>
  /\ BatchFrame

\* response.json() settles with a body without choices[0].message.content
\* (a TypeError, caught, null)
BodyMalformed(p) ==
  /\ chunkState[p] = "body"
  /\ chunkState' = [chunkState EXCEPT ![p] = "done"]
  /\ chunkResult' = [chunkResult EXCEPT ![p] = Null]
  /\ overtaken' = (overtaken \/ Overtakes(p))
  /\ UNCHANGED <<chunks, bPc, bI, requests, graphs, extractResponse>>
  /\ BatchFrame

\* response.json() settles with a content: parsing, filtering, fallback
BodySettles(p) ==
  /\ chunkState[p] = "body"
  /\ \E content \in ExtractionContents :
       chunkResult' = [chunkResult EXCEPT ![p] = extractGraphFromContent(chunks[p], content)]
  /\ chunkState' = [chunkState EXCEPT ![p] = "done"]
  /\ overtaken' = (overtaken \/ Overtakes(p))
  /\ UNCHANGED <<chunks, bPc, bI, requests, graphs, extractResponse>>
  /\ BatchFrame

\* mutant: null results are kept in the aggregate
RECURSIVE successfulResults_KeepNull(_, _)
successfulResults_KeepNull(from, to) ==
  IF from > to THEN <<>>
  ELSE <<IF chunkResult[from] = Null
         THEN [chunkId |-> chunks[from], entities |-> <<>>, relations |-> <<>>]
         ELSE chunkResult[from]>>
       \o successfulResults_KeepNull(from + 1, to)

\* batchResults.filter(result => result !== null), in the batch's order
RECURSIVE successfulResults(_, _)
successfulResults(from, to) ==
  IF from > to THEN <<>>
  ELSE (IF chunkResult[from] = Null THEN <<>> ELSE <<chunkResult[from]>>)
       \o successfulResults(from + 1, to)

\* Promise.all resolves once every promise of the batch has: the results
\* are appended and the loop moves to the next batch
JoinBatch ==
  /\ bPc = "await"
  /\ \A p \in BatchOf(bI) : chunkState[p] = "done"
  /\ graphs' = graphs \o successfulResults(bI + 1,
                  IF bI + BATCH_SIZE < Len(chunks) THEN bI + BATCH_SIZE ELSE Len(chunks))
  /\ bI' = bI + BATCH_SIZE
  /\ bPc' = "loop"
  /\ UNCHANGED <<chunks, chunkState, chunkResult, requests, extractResponse, overtaken>>
  /\ BatchFrame

\* the loop ends; the route answers with the graphs and the two tallies
ReturnGraphs ==
  /\ bPc = "loop"
  /\ bI >= Len(chunks)
  /\ extractResponse' = [success |-> TRUE, graphs |-> graphs,
                         processed |-> Len(graphs), total |-> Len(chunks)]
  /\ bPc' = "returned"
  /\ UNCHANGED <<chunks, bI, chunkState, chunkResult, requests, graphs, overtaken>>
  /\ BatchFrame

BatchNext ==
  \/ ExtractGraphRejected
  \/ ExtractGraphPOST
  \/ IssueBatch
  \/ \E p \in Positions : FetchSettles(p)
  \/ \E p \in Positions : BodyMalformed(p)
  \/ \E p \in Positions : BodySettles(p)
  \/ JoinBatch
  \/ ReturnGraphs


(***************************************************************************)
(* repositories/journal.repository.ts and the tables of the schema         *)
(* (journals, embeddings, entities with UNIQUE(name, type), relations with *)
(* UNIQUE(source_id, relation, target_id)); app/api/save-to-db/route.ts    *)
(***************************************************************************)
\* bounds of the model
MaxSaves == 2

N_gingerDot == <<"g","i","n","g","e","r",".">>
N_GingerPadded == <<" ","G","i","n","g","e","r">>
S_plant == <<"p","l","a","n","t">>
S_treatsPadded == <<"t","r","e","a","t","s"," ">>

\* graphs a client can submit (GraphResult values)
SaveGraph1 ==
  [chunkId |-> 1,
   entities |-> << [name |-> N_Ginger, type |-> S_PLANT],
                   [name |-> N_headache, type |-> S_SYMPTOM] >>,
   relations |-> << [source |-> N_Ginger, relation |-> S_treats, target |-> N_headache] >>]

SaveGraph2 ==
  [chunkId |-> 1,
   entities |-> << [name |-> N_ginger, type |-> S_plant] >>,
   relations |-> <<>>]

SaveGraph3 ==
  [chunkId |-> 2,
   entities |-> << [name |-> N_gingerDot, type |-> S_PLANT],
                   [name |-> N_GingerPadded, type |-> S_PLANT],
                   [name |-> N_headache, type |-> S_DISEASE] >>,
   relations |-> << [source |-> N_ginger, relation |-> S_treatsPadded, target |-> N_headache],
                    [source |-> N_ginger, relation |-> S_treats, target |-> N_time] >>]

SaveGraphLists ==
  { <<SaveGraph1>>, <<SaveGraph2>>, <<SaveGraph3>>, <<SaveGraph2, SaveGraph1>> }

\* the request bodies that pass the route's validation: chunk ids and the
\* chunk ids the vectors were computed for, both non-empty
SaveParams ==
  { [chunks |-> c, vectors |-> v, graphs |-> g] :
      c \in {<<1>>, <<1, 2>>}, v \in {{1}, {1, 2}}, g \in SaveGraphLists }

\* allEntities of insertEntities: every entity of every graph, name trimmed
\* and type upper-cased
RECURSIVE allEntitiesOf(_)
allEntitiesOf(gs) ==
  IF gs = <<>> THEN <<>>
  ELSE [i \in 1..Len(Head(gs).entities) |->
          [name |-> trim(Head(gs).entities[i].name),
           type |-> toUpperCase(Head(gs).entities[i].type)]]
       \o allEntitiesOf(Tail(gs))

\* INSERT ... ON CONFLICT (name, type) DO NOTHING, row by row; ids are fresh
RECURSIVE upsertEntities(_, _)
upsertEntities(table, rows) ==
  IF rows = <<>> THEN table
  ELSE LET r == Head(rows)
       IN  IF \E e \in table : e.name = r.name /\ e.type = r.type
           THEN upsertEntities(table, Tail(rows))
           ELSE upsertEntities(
                  table \cup {[id |-> Cardinality(table) + 1,
                               name |-> r.name, type |-> r.type]},
                  Tail(rows))

\* fetchEntityIdMap over the rows in the order the select returned them: a
\* Map keeps the position of a key's first set and the value of its last
RECURSIVE entityIdMapOf(_, _)
entityIdMapOf(rows, acc) ==
  IF rows = <<>> THEN acc
  ELSE LET key == entityKey(Head(rows))
           id == Head(rows).id
       IN  IF \E i \in 1..Len(acc) : acc[i].key = key
           THEN entityIdMapOf(Tail(rows),
                  [i \in 1..Len(acc) |->
                     IF acc[i].key = key THEN [key |-> key, id |-> id] ELSE acc[i]])
           ELSE entityIdMapOf(Tail(rows), Append(acc, [key |-> key, id |-> id]))

\* the orders in which a select without ORDER BY can return a table
Orderings(table) ==
  {s \in [1..Cardinality(table) -> table] :
     \A i, j \in 1..Cardinality(table) : i # j => s[i] # s[j]}

\* getEntityTypeFromName: the type of the first entity, graph by graph,
\* whose lower-cased name equals the lower-cased name; UNKNOWN if none
RECURSIVE getEntityTypeFromName(_, _)
getEntityTypeFromName(name, gs) ==
  IF gs = <<>> THEN S_UNKNOWN
  ELSE LET hits == {i \in 1..Len(Head(gs).entities) :
                      toLowerCase(Head(gs).entities[i].name) = toLowerCase(name)}
       IN  IF hits # {}
           THEN toUpperCase(Head(gs).entities[CHOOSE i \in hits : \A j \in hits : i <= j].type)
           ELSE getEntityTypeFromName(name, Tail(gs))

\* entityIdMap.get(key), then the first entry whose name part is the
\* normalized name; 0 stands for undefined
keyName(key) ==
  IF \E i \in 1..Len(key) : key[i] = "|"
  THEN SubSeq(key, 1, (CHOOSE i \in 1..Len(key) :
                         key[i] = "|" /\ \A j \in 1..(i - 1) : key[j] # "|") - 1)
  ELSE key

lookupEntityId(map, normalizedName, type) ==
  LET key == normalizedName \o <<"|">> \o toLowerCase(type)
      exact == {i \in 1..Len(map) : map[i].key = key}
      byName == {i \in 1..Len(map) : keyName(map[i].key) = normalizedName}
  IN  IF exact # {} THEN map[CHOOSE i \in exact : TRUE].id
      ELSE IF byName # {} THEN map[CHOOSE i \in byName : \A j \in byName : i <= j].id
      ELSE 0

\* allRelations of insertRelations: the relations with three non-empty fields
RECURSIVE allRelationsOf(_)
allRelationsOf(gs) ==
  IF gs = <<>> THEN <<>>
  ELSE SelectSeq(Head(gs).relations, LAMBDA r :
         r.source # <<>> /\ r.relation # <<>> /\ r.target # <<>>)
       \o allRelationsOf(Tail(gs))

\* relationsToInsert: the unique relations mapped to entity ids, those with
\* an unknown endpoint or an empty trimmed verb dropped
relationsToInsert(journalId, gs, map) ==
  LET unique == deduplicateRelations(allRelationsOf(gs))
      mapped == [i \in 1..Len(unique) |->
                   [source_id |-> lookupEntityId(map, normalizeEntityName(unique[i].source),
                                    getEntityTypeFromName(unique[i].source, gs)),
                    relation |-> trim(unique[i].relation),
                    target_id |-> lookupEntityId(map, normalizeEntityName(unique[i].target),
                                    getEntityTypeFromName(unique[i].target, gs)),
                    journal_id |-> journalId]]
  IN  SelectSeq(mapped, LAMBDA r :
        r.source_id # 0 /\ r.target_id # 0 /\ Len(r.relation) > 0)

\* INSERT ... ON CONFLICT (source_id, relation, target_id) DO NOTHING
RECURSIVE upsertRelations(_, _)
upsertRelations(table, rows) ==
  IF rows = <<>> THEN table
  ELSE LET r == Head(rows)
       IN  IF \E x \in table : /\ x.source_id = r.source_id
                               /\ x.relation = r.relation
                               /\ x.target_id = r.target_id
           THEN upsertRelations(table, Tail(rows))
           ELSE upsertRelations(
                  table \cup {[id |-> Cardinality(table) + 1,
                               source_id |-> r.source_id, relation |-> r.relation,
                               target_id |-> r.target_id, journal_id |-> r.journal_id]},
                  Tail(rows))

SaveInit ==
  /\ dbJournals = {}
  /\ dbEmbeddings = {}
  /\ dbEntities = {}
  /\ dbRelations = {}
  /\ sPc = "idle"
  /\ sParams = Null
  /\ sJournal = 0
  /\ sCounts = <<>>
  /\ sEntityIdMap = <<>>
  /\ saveResponse = Null
  /\ saves = 0

\* the route's catch: any error of saveToDatabase becomes a 500 answer
SaveFails(msg) ==
  /\ sPc' = "idle"
  /\ saveResponse' = [error |-> "Failed to save to database", details |-> msg, status |-> 500]
  /\ sParams' = Null
  /\ sJournal' = 0
  /\ sCounts' = <<>>
  /\ sEntityIdMap' = <<>>

\* POST /api/save-to-db with a valid body: saveToDatabase starts
SaveToDbPOST ==
  /\ sPc = "idle"
  /\ saves < MaxSaves
  /\ saves' = saves + 1
  /\ \E params \in SaveParams : sParams' = params
  /\ sPc' = "journal"
  /\ saveResponse' = Null
  /\ UNCHANGED <<dbJournals, dbEmbeddings, dbEntities, dbRelations,
                 sJournal, sCounts, sEntityIdMap>>
  /\ SaveFrame

\* 1. insertJournal
InsertJournal ==
  /\ sPc = "journal"
  /\ \/ /\ dbJournals' = dbJournals \cup {Cardinality(dbJournals) + 1}
        /\ sJournal' = Cardinality(dbJournals) + 1
        /\ sPc' = "embeddings"
        /\ UNCHANGED <<sParams, sCounts, sEntityIdMap, saveResponse>>
     \/ /\ SaveFails("Failed to insert journal")
        /\ UNCHANGED dbJournals
  /\ UNCHANGED <<dbEmbeddings, dbEntities, dbRelations, saves>>
  /\ SaveFrame

\* 2. insertEmbeddings: a chunk without a vector throws before the insert
InsertEmbeddings ==
  /\ sPc = "embeddings"
  /\ IF \E i \in 1..Len(sParams.chunks) : sParams.chunks[i] \notin sParams.vectors
     THEN /\ SaveFails("Vector not found for chunk")
          /\ UNCHANGED dbEmbeddings
     ELSE \/ /\ dbEmbeddings' = dbEmbeddings \cup
                   {[journal_id |-> sJournal, chunk_index |-> i - 1] :
                      i \in 1..Len(sParams.chunks)}
             /\ sCounts' = <<Len(sParams.chunks)>>
             /\ sPc' = "entities"
             /\ UNCHANGED <<sParams, sJournal, sEntityIdMap, saveResponse>>
          \/ /\ SaveFails("Failed to insert embeddings")
             /\ UNCHANGED dbEmbeddings
  /\ UNCHANGED <<dbJournals, dbEntities, dbRelations, saves>>
  /\ SaveFrame

\* 3. insertEntities
InsertEntities ==
  /\ sPc = "entities"
  /\ \/ /\ dbEntities' = upsertEntities(dbEntities,
                            deduplicateEntities(allEntitiesOf(sParams.graphs)))
        /\ sCounts' = Append(sCounts, Cardinality(dbEntities') - Cardinality(dbEntities))
        /\ sPc' = "idmap"
        /\ UNCHANGED <<sParams, sJournal, sEntityIdMap, saveResponse>>
     \/ /\ SaveFails("Failed to insert entities")
        /\ UNCHANGED dbEntities
  /\ UNCHANGED <<dbJournals, dbEmbeddings, dbRelations, saves>>
  /\ SaveFrame

\* 4. fetchEntityIdMap
FetchEntityIdMap ==
  /\ sPc = "idmap"
  /\ \/ /\ \E rows \in Orderings(dbEntities) : sEntityIdMap' = entityIdMapOf(rows, <<>>)
        /\ sPc' = "relations"
        /\ UNCHANGED <<sParams, sJournal, sCounts, saveResponse>>
     \/ SaveFails("Failed to fetch entities")
  /\ UNCHANGED <<dbJournals, dbEmbeddings, dbEntities, dbRelations, saves>>
  /\ SaveFrame

\* 5. insertRelations, and the answer of the route
InsertRelations ==
  /\ sPc = "relations"
  /\ LET rows == relationsToInsert(sJournal, sParams.graphs, sEntityIdMap)
         done(n) ==
           /\ saveResponse' = [success |-> TRUE, journalId |-> sJournal,
                               embeddingsCount |-> sCounts[1],
                               entitiesCount |-> sCounts[2],
                               relationsCount |-> n]
           /\ sPc' = "idle"
           /\ sParams' = Null
           /\ sJournal' = 0
           /\ sCounts' = <<>>
           /\ sEntityIdMap' = <<>>
     IN  IF rows = <<>>
         THEN /\ done(0)
              /\ UNCHANGED dbRelations
         ELSE \/ /\ dbRelations' = upsertRelations(dbRelations, rows)
                 /\ done(Cardinality(dbRelations') - Cardinality(dbRelations))
              \/ /\ SaveFails("Failed to insert relations")
                 /\ UNCHANGED dbRelations
  /\ UNCHANGED <<dbJournals, dbEmbeddings, dbEntities, saves>>
  /\ SaveFrame

SaveNext ==
  \/ SaveToDbPOST
  \/ InsertJournal
  \/ InsertEmbeddings
  \/ InsertEntities
  \/ FetchEntityIdMap
  \/ InsertRelations

(***************************************************************************)
(* repositories/search.repository.ts: the queries of the hybrid search     *)
(* over the entities, relations and embeddings tables                      *)
(***************************************************************************)
MatchLimit == 10
ConditionLimit == 5
DefaultTopK == 5

\* bounds of the model
MaxStoredRelations == 2
MaxFaults == 1

N_mint == <<"m","i","n","t">>
N_pain == <<"p","a","i","n">>
N_backPain == <<"b","a","c","k"," ","p","a","i","n">>
N_JointPain == <<"J","o","i","n","t"," ","P","a","i","n">>
N_eyePain == <<"e","y","e"," ","p","a","i","n">>
N_earPain == <<"e","a","r"," ","p","a","i","n">>
N_legPain == <<"l","e","g"," ","p","a","i","n">>
N_fever == <<"f","e","v","e","r">>
N_analgesic == <<"a","n","a","l","g","e","s","i","c">>
N_gingerol == <<"g","i","n","g","e","r","o","l">>

\* the entities table the searches run against: types upper-cased and names
\* trimmed as insertEntities stores them, (name, type) unique
StoredEntities ==
  { [id |-> 1, name |-> N_ginger, type |-> S_PLANT],
    [id |-> 2, name |-> N_mint, type |-> S_PLANT],
    [id |-> 3, name |-> N_pain, type |-> S_SYMPTOM],
    [id |-> 4, name |-> N_backPain, type |-> S_SYMPTOM],
    [id |-> 5, name |-> N_JointPain, type |-> S_DISEASE],
    [id |-> 6, name |-> N_eyePain, type |-> S_SYMPTOM],
    [id |-> 7, name |-> N_earPain, type |-> S_SYMPTOM],
    [id |-> 8, name |-> N_legPain, type |-> S_SYMPTOM],
    [id |-> 9, name |-> N_fever, type |-> S_SYMPTOM],
    [id |-> 10, name |-> N_analgesic, type |-> S_EFFECT],
    [id |-> 11, name |-> N_gingerol, type |-> S_COMPOUND] }

\* the relation rows a stored graph is drawn from
CandidateRelations ==
  { [id |-> 1, source_id |-> 1, relation |-> S_treats, target_id |-> 3, journal_id |-> 1],
    [id |-> 2, source_id |-> 2, relation |-> S_cures, target_id |-> 8, journal_id |-> 1],
    [id |-> 3, source_id |-> 2, relation |-> S_causes, target_id |-> 9, journal_id |-> 1],
    [id |-> 4, source_id |-> 1, relation |-> S_has_effect, target_id |-> 10, journal_id |-> 1],
    [id |-> 5, source_id |-> 2, relation |-> S_has_effect, target_id |-> 10, journal_id |-> 1],
    [id |-> 6, source_id |-> 1, relation |-> S_contains, target_id |-> 11, journal_id |-> 1],
    [id |-> 7, source_id |-> 11, relation |-> S_has_effect, target_id |-> 10, journal_id |-> 1],
    [id |-> 8, source_id |-> 11, relation |-> S_reduces, target_id |-> 3, journal_id |-> 1] }

StoredEmbeddings ==
  { [journal_id |-> 1, chunk_index |-> 0], [journal_id |-> 1, chunk_index |-> 1] }

\* name ILIKE '%pattern%'
ilike(name, pattern) == includes(toLowerCase(name), toLowerCase(pattern))

\* the row of an id, or Null (an embedded resource that does not resolve)
EntityById(id) ==
  IF \E e \in dbEntities : e.id = id
  THEN CHOOSE e \in dbEntities : e.id = id
  ELSE Null

\* rows of a result set in the order of their ids
RECURSIVE SortById(_)
SortById(rows) ==
  IF rows = {} THEN <<>>
  ELSE LET first == CHOOSE r \in rows : \A o \in rows : r.id <= o.id
       IN  <<first>> \o SortById(rows \ {first})

\* .limit(k) without ORDER BY: any k of the matching rows
Limited(rows, k) ==
  {s \in SUBSET rows :
     Cardinality(s) = (IF Cardinality(rows) < k THEN Cardinality(rows) ELSE k)}

\* findMatchingEntities: the rows the query can return; an empty entityType
\* adds no type filter
MatchingEntities(entityName, entityType) ==
  {e \in dbEntities :
     /\ ilike(e.name, entityName)
     /\ (entityType = <<>> \/ e.type = entityType)}

\* findMatchingEntities: the value returned for a reply of the database
findMatchingEntities(reply) ==
  IF reply.error THEN <<>> ELSE SortById(reply.data)

\* findHerbsForCondition, first query: the condition rows
MatchingConditions(conditionName) ==
  {e \in dbEntities :
     /\ ilike(e.name, conditionName)
     /\ e.type \in {S_DISEASE, S_SYMPTOM}}

\* mutant: "treats" is missing from the verb list
TherapeuticVerbs_NoTreats == {S_reduces, S_alleviates, S_prevents, S_cures}

TherapeuticVerbs == {S_treats, S_reduces, S_alleviates, S_prevents, S_cures}

\* findHerbsForCondition, second query: the relations into the conditions
\* with a therapeutic verb; the embedded source is null unless it is a PLANT
TreatmentRelations(conditionIds) ==
  { [id |-> r.id, relation |-> r.relation,
     source |-> IF EntityById(r.source_id) # Null /\ EntityById(r.source_id).type = S_PLANT
                THEN EntityById(r.source_id) ELSE Null] :
      r \in {x \in dbRelations :
               x.target_id \in conditionIds /\ x.relation \in TherapeuticVerbs} }

\* plantsMap.set(rel.source.id, rel.source) for every relation with a
\* source, then Array.from(plantsMap.values())
RECURSIVE plantsOf(_, _)
plantsOf(rels, acc) ==
  IF rels = <<>> THEN acc
  ELSE LET s == Head(rels).source
       IN  IF s = Null THEN plantsOf(Tail(rels), acc)
           ELSE IF \E i \in 1..Len(acc) : acc[i].id = s.id
           THEN plantsOf(Tail(rels),
                  [i \in 1..Len(acc) |-> IF acc[i].id = s.id THEN s ELSE acc[i]])
           ELSE plantsOf(Tail(rels), Append(acc, s))

\* findHerbsForCondition: the value returned for the second reply
findHerbsForCondition(reply) ==
  IF reply.error THEN <<>> ELSE plantsOf(SortById(reply.data), <<>>)

\* mutant: the relations are not restricted to those leaving the herbs
HerbRelations_AnySource(herbIds) ==
  { [id |-> r.id, relation |-> r.relation,
     source |-> EntityById(r.source_id), target |-> EntityById(r.target_id)] :
      r \in dbRelations }

\* getHerbCompoundsAndEffects: all relations leaving the herbs, with both
\* ends embedded
HerbRelations(herbIds) ==
  { [id |-> r.id, relation |-> r.relation,
     source |-> EntityById(r.source_id), target |-> EntityById(r.target_id)] :
      r \in {x \in dbRelations : x.source_id \in herbIds} }

\* getHerbCompoundsAndEffects: the local filter on the upper-cased target type
getHerbCompoundsAndEffects(reply) ==
  IF reply.error THEN <<>>
  ELSE LET kept == SelectSeq(SortById(reply.data), LAMBDA rel :
                     /\ rel.source # Null /\ rel.target # Null
                     /\ toUpperCase(rel.target.type) \in {S_COMPOUND, S_EFFECT, S_DISEASE})
       IN  [i \in 1..Len(kept) |->
              [id |-> kept[i].id, relation |-> kept[i].relation,
               source |-> [id |-> kept[i].source.id, name |-> kept[i].source.name,
                           type |-> toUpperCase(kept[i].source.type)],
               target |-> [id |-> kept[i].target.id, name |-> kept[i].target.name,
                           type |-> toUpperCase(kept[i].target.type)]]]

\* mutant: an error of the rpc is answered with no hits
vectorSearchThrows_Never(reply) == FALSE

\* vectorSearch throws when the rpc answers with an error
vectorSearchThrows(reply) == reply.error

\* search_similar_chunks: the match_count nearest embeddings, nearest first;
\* which are nearest depends on the vectors, so any order can come back
SimilarChunks(topK) ==
  UNION { {s \in [1..Cardinality(S) -> S] :
             \A i, j \in 1..Cardinality(S) : i # j => s[i] # s[j]} :
          S \in Limited(dbEmbeddings, topK) }

\* getJournalsForEmbeddings: the journal of an embedding, when the reply
\* holds one; an error leaves the map empty
journalFor(reply, hit) ==
  IF reply.error \/ hit.journal_id \notin dbJournals THEN Null
  ELSE [id |-> hit.journal_id]

(***************************************************************************)
(* services/mistral.service.ts: extractQueryEntities and generateAnswer    *)
(***************************************************************************)
S_symptom == <<"s","y","m","p","t","o","m">>

\* the entity lists the language model can answer a query with
QueryEntityLists ==
  { <<[name |-> N_pain, type |-> S_SYMPTOM]>>,
    <<[name |-> N_ginger, type |-> S_PLANT], [name |-> N_pain, type |-> S_DISEASE]>>,
    <<[name |-> <<>>, type |-> S_SYMPTOM], [name |-> N_fever, type |-> S_symptom],
      [name |-> N_gingerol, type |-> S_COMPOUND]>> }

\* what the chat-completions request of extractQueryEntities can settle to
ExtractFailures ==
  { [kind |-> "network"], [kind |-> "non2xx"], [kind |-> "unparseable"],
    [kind |-> "notArray"] }

ExtractReplies ==
  ExtractFailures \cup {[kind |-> "array", parsed |-> l] : l \in QueryEntityLists}

\* mutant: a parsed value that is not an array is still searched with
extractQueryEntities_NoArrayCheck(reply) ==
  IF reply.kind \in {"network", "non2xx", "unparseable"} THEN <<>>
  ELSE IF reply.kind = "notArray" THEN <<[name |-> N_pain, type |-> S_SYMPTOM]>>
  ELSE SelectSeq(reply.parsed, LAMBDA e : e.name # <<>> /\ e.type # <<>>)

\* extractQueryEntities: the value returned for a reply
extractQueryEntities(reply) ==
  IF reply.kind \in {"network", "non2xx", "unparseable"} THEN <<>>
  ELSE IF reply.kind = "notArray" THEN <<>>
  ELSE SelectSeq(reply.parsed, LAMBDA e : e.name # <<>> /\ e.type # <<>>)

FallbackAnswer == "Unable to generate answer due to an error."
EmptyAnswer == "Unable to generate answer."

\* the unique journal sources of generateAnswer: first three distinct titles
RECURSIVE distinctJournals(_, _)
distinctJournals(hits, acc) ==
  IF hits = <<>> THEN acc
  ELSE LET j == Head(hits).journal
       IN  IF j = Null \/ j \in Range(acc) THEN distinctJournals(Tail(hits), acc)
           ELSE distinctJournals(Tail(hits), Append(acc, j))

sourcesOf(vectorContext) == sliceTo(distinctJournals(vectorContext, <<>>), 3)

AnswerReplies == { [ok |-> FALSE], [ok |-> TRUE, content |-> "answer"],
                   [ok |-> TRUE, content |-> ""] }

\* mutant: the error of the request is reported in the answer
generateAnswer_ErrorText(reply, vectorContext) ==
  IF ~reply.ok THEN [text |-> "Mistral API error", sources |-> <<>>]
  ELSE [text |-> IF reply.content = "" THEN EmptyAnswer ELSE reply.content,
        sources |-> sourcesOf(vectorContext)]

\* generateAnswer: the text returned for a reply, with the sources appended
generateAnswer(reply, vectorContext) ==
  IF ~reply.ok THEN [text |-> FallbackAnswer, sources |-> <<>>]
  ELSE [text |-> IF reply.content = "" THEN EmptyAnswer ELSE reply.content,
        sources |-> sourcesOf(vectorContext)]

(***************************************************************************)
(* services/query.service.ts: hybridSearch, behind POST /api/query         *)
(***************************************************************************)
Calls == {"A", "B"}

Q_pain == <<" ","p","a","i","n","?">>
QueryBodies == { [query |-> <<>>], [query |-> <<" ">>], [query |-> Q_pain] }

IdleCall ==
  [pc |-> "idle", query |-> <<>>, topK |-> DefaultTopK, queryEntities |-> <<>>,
   load |-> 0, pipe |-> Null, vectorIssued |-> FALSE, vectorResults |-> <<>>,
   pending |-> {}, issued |-> {}, lookups |-> 0, conditions |-> {},
   allMatchedEntities |-> <<>>, herbs |-> <<>>, uniqueHerbs |-> <<>>,
   relations |-> <<>>, failed |-> {}, response |-> Null]

\* replies of a database query: an error, or one of the possible result sets
DbReplies(resultSets) ==
  (IF faults > 0 THEN {[error |-> TRUE, data |-> {}]} ELSE {})
    \cup {[error |-> FALSE, data |-> d] : d \in resultSets}

\* a deterministic collaborator has answered this request before
Known(request) == deterministic /\ \E m \in memo : m[1] = request

\* the replies a request can get: the earlier one from a deterministic
\* collaborator, any possible one otherwise
Answers(request, possible) ==
  IF Known(request) THEN {m[2] : m \in {x \in memo : x[1] = request}}
  ELSE possible

\* mutant: the embedding depends on the handle it was computed with
embedRequest_ByHandle(pipe, query) == <<"embed", pipe, query>>

\* pipe(query, {pooling, normalize}): every handle is the same model, the
\* request is the query
embedRequest(pipe, query) == <<"embed", query>>

\* mutant: records with a known id are appended again
UniqueById_KeepAll(herbs, acc) ==
  IF herbs = <<>> THEN acc ELSE acc \o herbs

\* Array.from(new Map(herbs.map((h) => [h.id, h])).values()): a key keeps
\* the position of its first entry and the value of its last
RECURSIVE UniqueById(_, _)
UniqueById(herbs, acc) ==
  IF herbs = <<>> THEN acc
  ELSE LET h == Head(herbs)
       IN  IF \E i \in 1..Len(acc) : acc[i].id = h.id
           THEN UniqueById(Tail(herbs),
                  [i \in 1..Len(acc) |-> IF acc[i].id = h.id THEN h ELSE acc[i]])
           ELSE UniqueById(Tail(herbs), Append(acc, h))

\* end of step 3: the duplicates are removed and step 4 starts; with no
\* herbs getHerbCompoundsAndEffects returns [] without a query and the
\* answer is requested
FinishGraphStage(s) ==
  LET u == UniqueById(s.herbs, <<>>)
  IN  IF u = <<>>
      THEN [s EXCEPT !.pc = "answer", !.uniqueHerbs = u, !.relations = <<>>]
      ELSE [s EXCEPT !.pc = "expand", !.uniqueHerbs = u, !.lookups = @ + 1]

\* mutant: the lookups of all query entities are started together
entitiesToStart_All(s) == 1..Len(s.queryEntities)

\* for (const entity of queryEntities) { await ... }: entering the loop
\* starts the lookup of the first entity only
entitiesToStart(s) == IF s.queryEntities = <<>> THEN {} ELSE {1}

StartLookups(s, E) ==
  [s EXCEPT !.pc = "graph",
            !.pending = @ \cup {[entity |-> i, lookup |-> "match"] : i \in E},
            !.issued = @ \cup E,
            !.lookups = @ + Cardinality(E)]

\* start of step 3
StartGraphStage(s) ==
  IF entitiesToStart(s) = {} THEN FinishGraphStage(s)
  ELSE StartLookups(s, entitiesToStart(s))

\* the next iteration of the loop over the query entities
NextEntity(s, i) ==
  IF i < Len(s.queryEntities) THEN StartLookups(s, {i + 1})
  ELSE FinishGraphStage(s)

\* a throw inside hybridSearch reaches the catch of the route
Rejects(c, s) ==
  hs' = [hs EXCEPT ![c] = [s EXCEPT !.pc = "rejected",
           !.response = [status |-> 500, error |-> "Failed to process query"]]]

\* a request settles with a reply
Spend(request, reply, failed) ==
  /\ faults' = IF failed /\ ~Known(request) THEN faults - 1 ELSE faults
  /\ memo' = IF deterministic THEN memo \cup {<<request, reply>>} ELSE memo

\* POST /api/query: the body is validated and hybridSearch is called with
\* the trimmed query, which sends the entity-extraction request
QueryPOST(c) ==
  /\ c \in callers
  /\ hs[c].pc = "idle"
  /\ \E body \in QueryBodies :
       IF trim(body.query) = <<>>
       THEN hs' = [hs EXCEPT ![c] = [@ EXCEPT !.pc = "responded",
                     !.response = [status |-> 400,
                        error |-> "Query is required and must be a non-empty string"]]]
       ELSE hs' = [hs EXCEPT ![c] = [@ EXCEPT !.pc = "extract",
                     !.query = trim(body.query)]]
  /\ UNCHANGED <<faults, memo>>
  /\ SearchFrame

\* step 1 settles; step 2 begins with getEmbeddingPipeline, which invokes
\* the loader when the module variable is still empty
ExtractSettles(c) ==
  /\ hs[c].pc = "extract"
  /\ \E reply \in Answers(<<"extract", hs[c].query>>,
                   {r \in ExtractReplies : r \in ExtractFailures => faults > 0}) :
       /\ Spend(<<"extract", hs[c].query>>, reply, reply \in ExtractFailures)
       /\ LET s == [hs[c] EXCEPT
                      !.queryEntities = extractQueryEntities(reply),
                      !.failed = IF reply \in ExtractFailures
                                 THEN @ \cup {"extract"} ELSE @]
          IN  IF embeddingPipeline = Null
              THEN /\ pipelineLoads' = pipelineLoads + 1
                   /\ hs' = [hs EXCEPT ![c] =
                        [s EXCEPT !.pc = "load", !.load = pipelineLoads + 1]]
              ELSE /\ pipelineLoads' = pipelineLoads
                   /\ hs' = [hs EXCEPT ![c] =
                        [s EXCEPT !.pc = "embed", !.pipe = embeddingPipeline]]
  /\ UNCHANGED embeddingPipeline
  /\ SearchLoadFrame

\* the loader settles: its handle is stored in the module variable and
\* returned, and the query is embedded with it
LoadSettles(c) ==
  /\ hs[c].pc = "load"
  /\ \E ok \in Answers(<<"load">>, {TRUE} \cup (IF faults > 0 THEN {FALSE} ELSE {})) :
       /\ Spend(<<"load">>, ok, ~ok)
       /\ IF ok
          THEN /\ embeddingPipeline' = [handle |-> hs[c].load]
               /\ hs' = [hs EXCEPT ![c] = [@ EXCEPT !.pc = "embed",
                                            !.pipe = [handle |-> hs[c].load]]]
          ELSE /\ UNCHANGED embeddingPipeline
               /\ Rejects(c, [hs[c] EXCEPT !.failed = @ \cup {"embedding"}])
  /\ UNCHANGED pipelineLoads
  /\ SearchLoadFrame

\* the embedding of the query settles and the similarity search is sent
EmbedSettles(c) ==
  /\ hs[c].pc = "embed"
  /\ \E ok \in Answers(embedRequest(hs[c].pipe, hs[c].query),
                {TRUE} \cup (IF faults > 0 THEN {FALSE} ELSE {})) :
       /\ Spend(embedRequest(hs[c].pipe, hs[c].query), ok, ~ok)
       /\ IF ok
          THEN hs' = [hs EXCEPT ![c] = [@ EXCEPT !.pc = "vsearch", !.vectorIssued = TRUE]]
          ELSE Rejects(c, [hs[c] EXCEPT !.failed = @ \cup {"embedding"}])
  /\ SearchFrame

\* vectorSearch settles; with hits the journal metadata is requested
VectorSettles(c) ==
  /\ hs[c].pc = "vsearch"
  /\ \E reply \in Answers(<<"vsearch", hs[c].query, hs[c].topK>>,
                   DbReplies(SimilarChunks(hs[c].topK))) :
       /\ Spend(<<"vsearch", hs[c].query, hs[c].topK>>, reply, reply.error)
       /\ IF vectorSearchThrows(reply)
          THEN Rejects(c, [hs[c] EXCEPT !.failed = @ \cup {"vector"}])
          ELSE LET hits == IF reply.error THEN <<>>
                           ELSE [i \in 1..Len(reply.data) |->
                                   [id |-> <<reply.data[i].journal_id, reply.data[i].chunk_index>>,
                                    journal_id |-> reply.data[i].journal_id,
                                    journal |-> Null]]
                   s == [hs[c] EXCEPT !.vectorResults = hits,
                           !.failed = IF reply.error THEN @ \cup {"vector"} ELSE @]
               IN  hs' = [hs EXCEPT ![c] =
                     IF Len(hits) > 0 THEN [s EXCEPT !.pc = "journals"]
                     ELSE StartGraphStage(s)]
  /\ SearchFrame

\* getJournalsForEmbeddings settles and step 3 starts
JournalsSettle(c) ==
  /\ hs[c].pc = "journals"
  /\ \E reply \in Answers(<<"journals", hs[c].vectorResults>>, DbReplies({{}})) :
       /\ Spend(<<"journals", hs[c].vectorResults>>, reply, reply.error)
       /\ LET s == [hs[c] EXCEPT
                      !.vectorResults = [i \in 1..Len(@) |->
                         [id |-> @[i].id, journal_id |-> @[i].journal_id,
                          journal |-> journalFor(reply, @[i])]],
                      !.failed = IF reply.error THEN @ \cup {"journals"} ELSE @]
          IN  hs' = [hs EXCEPT ![c] = StartGraphStage(s)]
  /\ SearchFrame

\* findMatchingEntities(entity.name, entity.type) settles; a SYMPTOM or
\* DISEASE continues with findHerbsForCondition, a PLANT with the plant lookup
MatchSettles(c) ==
  /\ hs[c].pc = "graph"
  /\ \E p \in hs[c].pending :
       /\ p.lookup = "match"
       /\ LET entity == hs[c].queryEntities[p.entity]
          IN  \E reply \in Answers(<<"match", entity.name, entity.type>>,
                    DbReplies(Limited(MatchingEntities(entity.name, entity.type), MatchLimit))) :
                /\ Spend(<<"match", entity.name, entity.type>>, reply, reply.error)
                /\ LET s == [hs[c] EXCEPT
                               !.allMatchedEntities = @ \o findMatchingEntities(reply),
                               !.pending = @ \ {p},
                               !.failed = IF reply.error THEN @ \cup {"entities"} ELSE @]
                   IN  hs' = [hs EXCEPT ![c] =
                         IF entity.type \in {S_SYMPTOM, S_DISEASE}
                         THEN [s EXCEPT !.pending = @ \cup {[entity |-> p.entity, lookup |-> "conditions"]},
                                        !.lookups = @ + 1]
                         ELSE IF entity.type = S_PLANT
                         THEN [s EXCEPT !.pending = @ \cup {[entity |-> p.entity, lookup |-> "plants"]},
                                        !.lookups = @ + 1]
                         ELSE NextEntity(s, p.entity)]
  /\ SearchFrame

\* findHerbsForCondition, the conditions query settles: its error is not
\* looked at; without conditions the function returns []
ConditionsSettle(c) ==
  /\ hs[c].pc = "graph"
  /\ \E p \in hs[c].pending :
       /\ p.lookup = "conditions"
       /\ LET entity == hs[c].queryEntities[p.entity]
          IN  \E reply \in Answers(<<"conditions", entity.name>>,
                    DbReplies(Limited(MatchingConditions(entity.name), ConditionLimit))) :
                /\ Spend(<<"conditions", entity.name>>, reply, reply.error)
                /\ LET ids == {e.id : e \in reply.data}
                       s == [hs[c] EXCEPT
                               !.pending = @ \ {p},
                               !.failed = IF reply.error THEN @ \cup {"entities"} ELSE @]
                   IN  hs' = [hs EXCEPT ![c] =
                         IF reply.error \/ ids = {} THEN NextEntity(s, p.entity)
                         ELSE [s EXCEPT
                                 !.conditions = @ \cup {[entity |-> p.entity, ids |-> ids]},
                                 !.pending = @ \cup {[entity |-> p.entity, lookup |-> "treats"]},
                                 !.lookups = @ + 1]]
  /\ SearchFrame

\* findHerbsForCondition, the relations query settles: the plants are
\* pushed to herbs
TreatsSettle(c) ==
  /\ hs[c].pc = "graph"
  /\ \E p \in hs[c].pending :
       /\ p.lookup = "treats"
       /\ LET ids == (CHOOSE x \in hs[c].conditions : x.entity = p.entity).ids
          IN  \E reply \in Answers(<<"treats", ids>>, DbReplies({TreatmentRelations(ids)})) :
                /\ Spend(<<"treats", ids>>, reply, reply.error)
                /\ hs' = [hs EXCEPT ![c] = NextEntity(
                            [hs[c] EXCEPT
                               !.herbs = @ \o findHerbsForCondition(reply),
                               !.pending = @ \ {p},
                               !.failed = IF reply.error THEN @ \cup {"relations"} ELSE @],
                            p.entity)]
  /\ SearchFrame

\* findMatchingEntities(entity.name, "PLANT") settles: the plants are pushed
\* to herbs
PlantsSettle(c) ==
  /\ hs[c].pc = "graph"
  /\ \E p \in hs[c].pending :
       /\ p.lookup = "plants"
       /\ LET entity == hs[c].queryEntities[p.entity]
          IN  \E reply \in Answers(<<"match", entity.name, S_PLANT>>,
                    DbReplies(Limited(MatchingEntities(entity.name, S_PLANT), MatchLimit))) :
                /\ Spend(<<"match", entity.name, S_PLANT>>, reply, reply.error)
                /\ hs' = [hs EXCEPT ![c] = NextEntity(
                            [hs[c] EXCEPT
                               !.herbs = @ \o findMatchingEntities(reply),
                               !.pending = @ \ {p},
                               !.failed = IF reply.error THEN @ \cup {"entities"} ELSE @],
                            p.entity)]
  /\ SearchFrame

\* getHerbCompoundsAndEffects settles and the answer is requested
ExpandSettles(c) ==
  /\ hs[c].pc = "expand"
  /\ \E reply \in Answers(<<"expand", {h.id : h \in Range(hs[c].uniqueHerbs)}>>,
                   DbReplies({HerbRelations({h.id : h \in Range(hs[c].uniqueHerbs)})})) :
       /\ Spend(<<"expand", {h.id : h \in Range(hs[c].uniqueHerbs)}>>, reply, reply.error)
       /\ hs' = [hs EXCEPT ![c] = [@ EXCEPT
                   !.pc = "answer",
                   !.relations = getHerbCompoundsAndEffects(reply),
                   !.failed = IF reply.error THEN @ \cup {"relations"} ELSE @]]
  /\ SearchFrame

\* the result object of hybridSearch
resultOf(s, answer) ==
  LET compounds == SelectSeq(s.relations, LAMBDA r : r.target.type = S_COMPOUND)
      effects == SelectSeq(s.relations, LAMBDA r : r.target.type = S_EFFECT)
  IN  [query |-> s.query,
       queryEntities |-> s.queryEntities,
       vectorResults |-> s.vectorResults,
       graphResults |-> [herbs |-> s.uniqueHerbs, compounds |-> compounds,
                         effects |-> effects, allRelations |-> s.relations],
       answer |-> answer,
       summary |-> [totalChunks |-> Len(s.vectorResults),
                    totalHerbs |-> Len(s.uniqueHerbs),
                    totalCompounds |-> Len(compounds),
                    totalEffects |-> Len(effects)]]

\* generateAnswer settles; hybridSearch returns and the route answers
AnswerSettles(c) ==
  /\ hs[c].pc = "answer"
  /\ \E reply \in Answers(<<"answer", hs[c].query, hs[c].vectorResults,
                     hs[c].uniqueHerbs, hs[c].relations>>,
                   {r \in AnswerReplies : ~r.ok => faults > 0}) :
       /\ Spend(<<"answer", hs[c].query, hs[c].vectorResults,
                  hs[c].uniqueHerbs, hs[c].relations>>, reply, ~reply.ok)
       /\ LET s == [hs[c] EXCEPT !.failed = IF reply.ok THEN @ ELSE @ \cup {"answer"}]
          IN  hs' = [hs EXCEPT ![c] = [s EXCEPT
                      !.pc = "returned",
                      !.response = [status |-> 200, success |-> TRUE,
                        result |-> resultOf(s, generateAnswer(reply, s.vectorResults))]]]
  /\ SearchFrame

SearchNext ==
  \E c \in Calls :
    \/ QueryPOST(c)
    \/ ExtractSettles(c)
    \/ LoadSettles(c)
    \/ EmbedSettles(c)
    \/ VectorSettles(c)
    \/ JournalsSettle(c)
    \/ MatchSettles(c)
    \/ ConditionsSettle(c)
    \/ TreatsSettle(c)
    \/ PlantsSettle(c)
    \/ ExpandSettles(c)
    \/ AnswerSettles(c)

\* no query has been made
SearchIdle ==
  /\ hs = [c \in Calls |-> IdleCall]
  /\ embeddingPipeline = Null
  /\ pipelineLoads = 0
  /\ memo = {}

(***************************************************************************)
(* Regular expressions of the JavaScript runtime, as the code uses them:   *)
(* a pattern is a tree of nodes, and RxEnds lists the positions at which a *)
(* match that starts at position i can end, in the order in which the      *)
(* backtracking matcher tries them (the first is the match it takes).      *)
(* Positions are 1-based; position Len(s) + 1 is the end of the string.    *)
(***************************************************************************)
WordChars ==
  Range(UpperLetters) \cup Range(LowerLetters) \cup Digits \cup {"_"}
LineTerminators == {"\n", "\r"}

\* a sequence written as a function, held as a tuple
RxTuple(f) == SubSeq(f, 1, Len(f))

\* JavaScript computes an expression once and goes on with its value
\* (const name = value; ...): In of the value of the expression
Let(value, In(_)) == CHOOSE result \in { In(v) : v \in {value} } : TRUE

RxChar(set) == [k |-> "chr", set |-> set, neg |-> FALSE]
RxNot(set) == [k |-> "chr", set |-> set, neg |-> TRUE]
RxAny == RxNot(LineTerminators)
RxSeq(items) == [k |-> "seq", items |-> items]
RxAlt(items) == [k |-> "alt", items |-> items]
RxRep(node, min, max, lazy) ==
  [k |-> "rep", node |-> node, min |-> min, max |-> max, lazy |-> lazy]
RxUnbounded == 0 - 1
RxStar(node) == RxRep(node, 0, RxUnbounded, FALSE)
RxPlus(node) == RxRep(node, 1, RxUnbounded, FALSE)
RxOpt(node) == RxRep(node, 0, 1, FALSE)
RxLazyStar(node) == RxRep(node, 0, RxUnbounded, TRUE)
RxLit(chars) == [k |-> "lit", chars |-> chars]
RxBol == [k |-> "bol"]
RxEol == [k |-> "eol"]
RxWb == [k |-> "wb"]

\* Under the i flag the pattern and the text it is matched against are both
\* brought to one letter case before they are compared.
RxFoldTable == [ch \in Range(UpperLetters) |-> LowerChar(ch)]
RxFoldChar(ch) == IF ch \in DOMAIN RxFoldTable THEN RxFoldTable[ch] ELSE ch
RxFoldText(s) == RxTuple([i \in 1..Len(s) |-> RxFoldChar(s[i])])

RECURSIVE RxFold(_)
RxFold(node) ==
  CASE node.k = "chr" -> [node EXCEPT !.set = {RxFoldChar(ch) : ch \in node.set}]
    [] node.k = "lit" -> [node EXCEPT !.chars = RxFoldText(node.chars)]
    [] node.k \in {"seq", "alt"} ->
         [node EXCEPT !.items = RxTuple([i \in 1..Len(node.items) |-> RxFold(node.items[i])])]
    [] node.k = "rep" -> [node EXCEPT !.node = RxFold(node.node)]
    [] OTHER -> node

\* a regular expression: its pattern and its flags i, m and g
Regex(node, flags) ==
  [node |-> IF "i" \in flags THEN RxFold(node) ELSE node,
   i |-> "i" \in flags, m |-> "m" \in flags, g |-> "g" \in flags]

\* the text as the matcher of the expression compares it
RxSubject(re, s) == IF re.i THEN RxFoldText(s) ELSE s

\* one character against a class
RxCharIn(ch, node, re) == (ch \in node.set) # node.neg

RxMin(a, b) == IF a < b THEN a ELSE b
RxPositions(from, to) == RxTuple([k \in 1..(to - from + 1) |-> from + k - 1])

\* the number of leading characters of s[i .. i + n - 1] that are in the class
\* (the range is halved, which keeps the evaluation shallow on long texts)
RECURSIVE RxRun(_, _, _, _, _)
RxRun(node, re, s, i, n) ==
  IF n <= 0 \/ ~RxCharIn(s[i], node, re) THEN 0
  ELSE IF n = 1 THEN 1
  ELSE Let(n \div 2, LAMBDA half :
       Let(RxRun(node, re, s, i, half), LAMBDA left :
         IF left < half THEN left
         ELSE half + RxRun(node, re, s, i + half, n - half)))

RECURSIVE RxEnds(_, _, _, _)
RECURSIVE RxSeqEnds(_, _, _, _)
RECURSIVE RxThen(_, _, _, _, _, _)
RECURSIVE RxAltEnds(_, _, _, _)
RECURSIVE RxRepEnds(_, _, _, _, _)
RECURSIVE RxRepThen(_, _, _, _, _, _, _)

RxEnds(node, re, s, i) ==
  CASE node.k = "chr" ->
         IF i <= Len(s) /\ RxCharIn(s[i], node, re) THEN <<i + 1>> ELSE <<>>
    [] node.k = "lit" ->
         IF /\ i + Len(node.chars) - 1 <= Len(s)
            /\ \A j \in 1..Len(node.chars) : s[i + j - 1] = node.chars[j]
         THEN <<i + Len(node.chars)>> ELSE <<>>
    [] node.k = "seq" -> RxSeqEnds(node.items, re, s, i)
    [] node.k = "alt" -> RxAltEnds(node.items, re, s, i)
    [] node.k = "rep" ->
         IF node.node.k = "chr"
         THEN Let(Len(s) - i + 1, LAMBDA left :
              Let(RxRun(node.node, re, s, i,
                        IF node.max = RxUnbounded THEN left ELSE RxMin(node.max, left)),
                  LAMBDA run :
              Let(IF run < node.min THEN 0 ELSE run - node.min + 1, LAMBDA count :
                RxTuple([j \in 1..count |->
                   IF node.lazy THEN i + node.min + j - 1 ELSE i + run - j + 1]))))
         ELSE RxRepEnds(node, re, s, i, 0)
    [] node.k = "bol" ->
         IF i = 1 \/ (re.m /\ s[i - 1] \in LineTerminators) THEN <<i>> ELSE <<>>
    [] node.k = "eol" ->
         IF i = Len(s) + 1 \/ (re.m /\ s[i] \in LineTerminators) THEN <<i>> ELSE <<>>
    [] node.k = "wb" ->
         LET before == i > 1 /\ s[i - 1] \in WordChars
             after == i <= Len(s) /\ s[i] \in WordChars
         IN  IF before # after THEN <<i>> ELSE <<>>

\* the ends of the items matched one after the other from position i on
RxSeqEnds(items, re, s, i) ==
  IF items = <<>> THEN <<i>>
  ELSE Let(RxEnds(Head(items), re, s, i), LAMBDA starts :
         RxThen(Tail(items), re, s, starts, 1, Len(starts)))

\* the ends of the items matched from each of the positions starts[a .. b]
RxThen(items, re, s, starts, a, b) ==
  IF a > b THEN <<>>
  ELSE IF a = b THEN RxSeqEnds(items, re, s, starts[a])
  ELSE Let((a + b) \div 2, LAMBDA half :
         RxThen(items, re, s, starts, a, half)
           \o RxThen(items, re, s, starts, half + 1, b))

RxAltEnds(items, re, s, i) ==
  IF items = <<>> THEN <<>>
  ELSE RxEnds(Head(items), re, s, i) \o RxAltEnds(Tail(items), re, s, i)

RxRepEnds(node, re, s, i, count) ==
  Let(IF count >= node.min THEN <<i>> ELSE <<>>, LAMBDA stop :
  Let(IF node.max # RxUnbounded /\ count >= node.max THEN <<>>
      ELSE SelectSeq(RxEnds(node.node, re, s, i), LAMBDA e : e > i), LAMBDA steps :
  Let(RxRepThen(node, re, s, steps, count + 1, 1, Len(steps)), LAMBDA more :
    IF node.lazy THEN stop \o more ELSE more \o stop)))

\* the ends of further repetitions from each of the positions starts[a .. b]
RxRepThen(node, re, s, starts, count, a, b) ==
  IF a > b THEN <<>>
  ELSE RxRepEnds(node, re, s, starts[a], count)
         \o RxRepThen(node, re, s, starts, count, a + 1, b)

\* the leftmost match that starts at one of the n positions from position
\* from on: <<start, end>>, or <<>>
RECURSIVE RxFind(_, _, _, _)
RxFind(re, s, from, n) ==
  IF n <= 0 THEN <<>>
  ELSE IF n = 1
  THEN Let(RxEnds(re.node, re, s, from), LAMBDA ends :
         IF ends # <<>> THEN <<from, ends[1]>> ELSE <<>>)
  ELSE Let(n \div 2, LAMBDA half :
       Let(RxFind(re, s, from, half), LAMBDA left :
         IF left # <<>> THEN left ELSE RxFind(re, s, from + half, n - half)))

\* the first match of the expression in the text: <<start, end>>, or <<>>
RxFirst(s, re) ==
  Let(re, LAMBDA regex :
  Let(RxSubject(regex, s), LAMBDA subject :
    RxFind(regex, subject, 1, Len(subject) + 1)))

\* String.prototype.search: the 0-based index of the first match, or -1
search(s, re) ==
  Let(RxFirst(s, re), LAMBDA m : IF m = <<>> THEN 0 - 1 ELSE m[1] - 1)

\* RegExp.prototype.test
test(re, s) == RxFirst(s, re) # <<>>

\* The matches String.prototype.replace and String.prototype.match work on:
\* every match under the g flag, the first one otherwise, each as <<start, end>>.
\* RxMatchRange scans the n positions from position from on and answers the
\* matches that start there, the position at which the scan goes on, and
\* whether the scan is over (a first match without the g flag).
RECURSIVE RxMatchRange(_, _, _, _)
RxMatchRange(subject, re, from, n) ==
  IF n <= 0 THEN [matches |-> <<>>, next |-> from, done |-> FALSE]
  ELSE IF n = 1
  THEN Let(RxEnds(re.node, re, subject, from), LAMBDA ends :
         IF ends = <<>> THEN [matches |-> <<>>, next |-> from + 1, done |-> FALSE]
         ELSE [matches |-> << <<from, ends[1]>> >>,
               next |-> IF ends[1] > from THEN ends[1] ELSE from + 1,
               done |-> ~re.g])
  ELSE Let(RxMatchRange(subject, re, from, n \div 2), LAMBDA left :
         IF left.done \/ left.next >= from + n THEN left
         ELSE Let(RxMatchRange(subject, re, left.next, from + n - left.next),
                  LAMBDA right :
                [matches |-> left.matches \o right.matches,
                 next |-> right.next, done |-> right.done]))

matchAll(s, re) ==
  Let(re, LAMBDA regex :
  Let(RxSubject(regex, s), LAMBDA subject :
    RxMatchRange(subject, regex, 1, Len(subject) + 1).matches))

\* the text before each of the matches a .. b, each followed by its replacement
RECURSIVE RxSplice(_, _, _, _, _)
RxSplice(s, matches, texts, a, b) ==
  IF a > b THEN <<>>
  ELSE IF a = b
  THEN SubSeq(s, IF a = 1 THEN 1 ELSE matches[a - 1][2], matches[a][1] - 1) \o texts[a]
  ELSE Let((a + b) \div 2, LAMBDA half :
         RxSplice(s, matches, texts, a, half) \o RxSplice(s, matches, texts, half + 1, b))

\* String.prototype.replace, the replacement computed from the matched text
replaceEach(s, re, Replacement(_)) ==
  Let(s, LAMBDA text :
  Let(matchAll(text, re), LAMBDA matches :
  Let(RxTuple([k \in 1..Len(matches) |->
                 Replacement(SubSeq(text, matches[k][1], matches[k][2] - 1))]),
      LAMBDA texts :
    RxSplice(text, matches, texts, 1, Len(matches))
      \o SubSeq(text, IF matches = <<>> THEN 1 ELSE matches[Len(matches)][2], Len(text)))))

\* String.prototype.replace with a replacement text without $ patterns
replace(s, re, with) == replaceEach(s, re, LAMBDA matched : with)

\* String.prototype.split("\n")
RECURSIVE splitLinesFrom(_, _)
splitLinesFrom(s, from) ==
  IF \A i \in from..Len(s) : s[i] # "\n" THEN <<SubSeq(s, from, Len(s))>>
  ELSE Let(CHOOSE i \in from..Len(s) :
             s[i] = "\n" /\ \A j \in from..(i - 1) : s[j] # "\n", LAMBDA k :
         <<SubSeq(s, from, k - 1)>> \o splitLinesFrom(s, k + 1))

splitLines(s) == Let(s, LAMBDA text : splitLinesFrom(text, 1))

\* Array.prototype.join("\n")
RECURSIVE joinLinesFrom(_, _)
joinLinesFrom(lines, from) ==
  IF from > Len(lines) THEN <<>>
  ELSE IF from = Len(lines) THEN lines[from]
  ELSE lines[from] \o <<"\n">> \o joinLinesFrom(lines, from + 1)

joinLines(lines) == Let(lines, LAMBDA all : joinLinesFrom(all, 1))

\* String.prototype.substring(from) and substring(0, to), 0-based
substringFrom(s, from) == SubSeq(s, from + 1, Len(s))
substringTo(s, to) == SubSeq(s, 1, to)

(***************************************************************************)
(* lib/text-utils.ts: cleanAcademicText, one operator per numbered step.   *)
(***************************************************************************)
RxWord(node) == RxSeq(<<RxWb, node, RxWb>>)
RxWs == RxChar(WhiteSpace)
RxDigit == RxChar(Digits)
RxLine(node) == RxSeq(<<RxBol, RxLazyStar(RxAny), node, RxLazyStar(RxAny), RxEol>>)
RxWords(words) == RxSeq(RxTuple([i \in 1..Len(words) |->
                    IF i = 1 THEN words[i] ELSE RxSeq(<<RxPlus(RxWs), words[i]>>)]))
RxJournal == RxAlt(<<RxLit(<<"M","a","j","a","l","a","h">>), RxLit(<<"J","o","u","r","n","a","l">>), RxLit(<<"J","u","r","n","a","l">>)>>)

\* 1. Find and start from Abstract section
abstractPatterns ==
  << Regex(RxWord(RxLit(<<"A","B","S","T","R","A","C","T">>)), {"i"}),
     Regex(RxWord(RxLit(<<"A","b","s","t","r","a","c","t">>)), {}),
     Regex(RxWord(RxLit(<<"A","B","S","T","R","A","K">>)), {"i"}),
     Regex(RxWord(RxLit(<<"I","N","T","R","O","D","U","C","T","I","O","N">>)), {"i"}),
     Regex(RxWord(RxLit(<<"P","E","N","D","A","H","U","L","U","A","N">>)), {"i"}) >>

RECURSIVE earliestMatch(_, _, _)
earliestMatch(cleaned, patterns, startIndex) ==
  IF patterns = <<>> THEN startIndex
  ELSE Let(search(cleaned, Head(patterns)), LAMBDA match :
       Let(IF match # 0 - 1 /\ (startIndex = 0 - 1 \/ match < startIndex)
           THEN match ELSE startIndex, LAMBDA earliest :
         earliestMatch(cleaned, Tail(patterns), earliest)))

startFromAbstract(text) ==
  Let(earliestMatch(text, abstractPatterns, 0 - 1), LAMBDA startIndex :
    IF startIndex > 0 THEN substringFrom(text, startIndex) ELSE text)

\* String.prototype.split(/\s+/)
RECURSIVE splitWhitespace(_)
splitWhitespace(s) ==
  IF \A i \in 1..Len(s) : s[i] \notin WhiteSpace THEN <<s>>
  ELSE Let(CHOOSE i \in 1..Len(s) :
             s[i] \in WhiteSpace /\ \A j \in 1..(i - 1) : s[j] \notin WhiteSpace,
           LAMBDA k :
       Let(trimStart(SubSeq(s, k, Len(s))), LAMBDA rest :
         <<SubSeq(s, 1, k - 1)>> \o splitWhitespace(rest)))

\* 2. Remove LLM-detected header pattern, then every line holding one of its
\*    words of more than five characters
RECURSIVE removeHeaderWords(_, _)
removeHeaderWords(cleaned, headerWords) ==
  IF headerWords = <<>> THEN cleaned
  ELSE LET word == Head(headerWords)
           wordRegex == Regex(RxLine(RxLit(word)), {"g", "m", "i"})
       IN  Let(IF Len(word) > 5 THEN replace(cleaned, wordRegex, <<>>) ELSE cleaned,
               LAMBDA without : removeHeaderWords(without, Tail(headerWords)))

removeHeaderPattern(cleaned, headerPattern) ==
  IF Len(headerPattern) > 5
  THEN LET headerRegex == Regex(RxLit(headerPattern), {"g", "i"})
       IN  Let(SelectSeq(splitWhitespace(headerPattern), LAMBDA w : Len(w) > 4),
               LAMBDA headerWords :
           Let(replace(cleaned, headerRegex, <<>>), LAMBDA without :
             removeHeaderWords(without, headerWords)))
  ELSE cleaned

\* Additional header patterns
removeJournalHeaders(cleaned) ==
  LET a == replace(cleaned,
             Regex(RxLine(RxAlt(<<RxLit(<<"M","a","j","a","l","a","h">>), RxLit(<<"J","o","u","r","n","a","l">>), RxLit(<<"J","u","r","n","a","l">>),
                                  RxLit(<<"I","S","S","N">>), RxLit(<<"V","o","l",".">>), RxLit(<<"V","o","l","u","m","e">>)>>)),
                   {"g", "m", "i"}), <<>>)
      b == replace(a,
             Regex(RxSeq(<<RxBol, RxLazyStar(RxAny),
                           RxAlt(<<RxLit(<<"T","r","a","d","i","t","i","o","n","a","l">>), RxLit(<<"M","e","d","i","c","i","n","e">>),
                                   RxLit(<<"O","b","a","t">>), RxLit(<<"T","r","a","d","i","s","i","o","n","a","l">>)>>),
                           RxLazyStar(RxAny), RxLit(<<"I","S","S","N">>), RxLazyStar(RxAny), RxEol>>),
                   {"g", "m", "i"}), <<>>)
  IN  replace(b,
        Regex(RxAlt(<<RxSeq(<<RxBol, RxLazyStar(RxAny), RxLit(<<"p","-","I","S","S","N">>)>>),
                      RxSeq(<<RxLit(<<"e","-","I","S","S","N">>), RxLazyStar(RxAny), RxEol>>)>>),
              {"g", "m", "i"}), <<>>)

\* 3. Remove LLM-detected footer pattern
removeFooterPattern(cleaned, footerPattern) ==
  IF Len(footerPattern) > 5
  THEN LET footerRegex == Regex(RxLit(footerPattern), {"g", "i"})
       IN  replace(cleaned, footerRegex, <<>>)
  ELSE cleaned

\* 4. Remove journal footer patterns
removeJournalFooters(cleaned) ==
  LET a == replace(cleaned,
             Regex(RxSeq(<<RxBol, RxLazyStar(RxAny), RxJournal, RxLazyStar(RxAny),
                           RxPlus(RxDigit), RxLit(<<"(">>), RxPlus(RxDigit), RxLit(<<")">>),
                           RxLazyStar(RxAny), RxRep(RxDigit, 4, 4, FALSE),
                           RxStar(RxWs), RxPlus(RxDigit), RxStar(RxWs), RxEol>>),
                   {"g", "m", "i"}), <<>>)
  IN  replace(a,
        Regex(RxSeq(<<RxBol, RxLazyStar(RxAny), RxJournal, RxLazyStar(RxAny),
                      RxPlus(RxDigit), RxLazyStar(RxAny), RxRep(RxDigit, 4, 4, FALSE),
                      RxLazyStar(RxAny), RxEol>>),
              {"g", "m", "i"}), <<>>)

\* 5. Remove common academic metadata
removeMetadata(cleaned) ==
  LET a == replace(cleaned,
             Regex(RxSeq(<<RxLit(<<"I","S","S","N">>), RxStar(RxChar({"-", " "})),
                           RxOpt(RxChar({"p", "e"})), RxStar(RxWs), RxOpt(RxChar({":"})),
                           RxStar(RxWs), RxRep(RxDigit, 4, 4, FALSE),
                           RxStar(RxChar({"-"} \cup WhiteSpace)),
                           RxRep(RxDigit, 4, 4, FALSE)>>),
                   {"g", "i"}), <<>>)
      b == replace(a,
             Regex(RxSeq(<<RxLit(<<"D","O","I">>), RxStar(RxWs), RxOpt(RxChar({":"})), RxStar(RxWs),
                           RxPlus(RxChar(Digits \cup {".", "/", "-"} \cup Range(LowerLetters)))>>),
                   {"g", "i"}), <<>>)
      c == replace(b,
             Regex(RxSeq(<<RxLit(<<"h","t","t","p">>), RxOpt(RxChar({"s"})), RxLit(<<":","/","/">>),
                           RxPlus(RxNot(WhiteSpace))>>),
                   {"g", "i"}), <<>>)
  IN  replace(c,
        Regex(RxSeq(<<RxPlus(RxChar(WordChars \cup {".", "-"})), RxChar({"@"}),
                      RxPlus(RxChar(WordChars \cup {".", "-"})), RxChar({"."}),
                      RxRep(RxChar(Range(LowerLetters)), 2, RxUnbounded, FALSE)>>),
              {"g", "i"}), <<>>)

\* 6. Remove page numbers
removePageNumbers(cleaned) ==
  LET a == replace(cleaned,
             Regex(RxSeq(<<RxBol, RxStar(RxWs), RxPlus(RxDigit), RxStar(RxWs), RxEol>>),
                   {"g", "m"}), <<>>)
      b == replace(a,
             Regex(RxSeq(<<RxBol, RxStar(RxWs), RxChar({"-"}), RxStar(RxWs), RxPlus(RxDigit),
                           RxStar(RxWs), RxChar({"-"}), RxStar(RxWs), RxEol>>),
                   {"g", "m"}), <<>>)
  IN  replace(b,
        Regex(RxSeq(<<RxBol, RxLazyStar(RxAny), RxRep(RxDigit, 4, 4, FALSE), RxPlus(RxWs),
                      RxRep(RxDigit, 1, 4, FALSE), RxStar(RxWs), RxEol>>),
              {"g", "m"}), <<>>)

\* replace(/\n\s*\n\s*\n+/g, '\n\n')
collapseBlankLines(cleaned) ==
  replace(cleaned,
    Regex(RxSeq(<<RxChar({"\n"}), RxStar(RxWs), RxChar({"\n"}), RxStar(RxWs),
                  RxPlus(RxChar({"\n"}))>>), {"g"}),
    <<"\n", "\n">>)

\* 7. Normalize whitespace
normalizeWhitespace(cleaned) ==
  collapseBlankLines(
    replace(cleaned, Regex(RxPlus(RxChar({" ", "\t"})), {"g"}), <<" ">>))

\* 8. Remove lines with mostly special characters or very short
keepLine(lines, index) ==
  Let(trim(lines[index]), LAMBDA trimmed :
    LET nextLine == IF index < Len(lines) THEN lines[index + 1] ELSE <<>>
    IN  IF Len(trimmed) = 0 THEN TRUE
        ELSE IF test(Regex(RxSeq(<<RxJournal, RxLazyStar(RxAny), RxPlus(RxDigit)>>), {"i"}), trimmed)
        THEN FALSE
        ELSE IF Len(trimmed) < 15
        THEN IF nextLine # <<>> /\ Len(trim(nextLine)) > 40 THEN TRUE ELSE Len(trimmed) >= 3
        ELSE TRUE)

RECURSIVE filterLinesFrom(_, _)
filterLinesFrom(lines, index) ==
  IF index > Len(lines) THEN <<>>
  ELSE (IF keepLine(lines, index) THEN <<lines[index]>> ELSE <<>>)
         \o filterLinesFrom(lines, index + 1)

filterLines(cleaned) ==
  Let(splitLines(cleaned), LAMBDA lines : joinLines(filterLinesFrom(lines, 1)))

\* 9. Find and remove repeated patterns.  lineFrequency is a plain object:
\*    a line that is the name of a property every object inherits reads that
\*    property instead of a count, and its count never becomes a number.
ObjectPrototypeKeys ==
  { <<"c","o","n","s","t","r","u","c","t","o","r">>, <<"t","o","S","t","r","i","n","g">>, <<"v","a","l","u","e","O","f">>, <<"h","a","s","O","w","n","P","r","o","p","e","r","t","y">>,
    <<"i","s","P","r","o","t","o","t","y","p","e","O","f">>, <<"t","o","L","o","c","a","l","e","S","t","r","i","n","g">>, <<"p","r","o","p","e","r","t","y","I","s","E","n","u","m","e","r","a","b","l","e">>,
    <<"_","_","p","r","o","t","o","_","_">>, <<"_","_","d","e","f","i","n","e","G","e","t","t","e","r","_","_">>, <<"_","_","d","e","f","i","n","e","S","e","t","t","e","r","_","_">>,
    <<"_","_","l","o","o","k","u","p","G","e","t","t","e","r","_","_">>, <<"_","_","l","o","o","k","u","p","S","e","t","t","e","r","_","_">> }

lineFrequency(lines, line) ==
  Cardinality({i \in 1..Len(lines) : trim(lines[i]) = line})

\* Object.keys(lineFrequency) in insertion order, kept when the count is >= 2
RECURSIVE repeatedLinesFrom(_, _)
repeatedLinesFrom(lines, index) ==
  IF index > Len(lines) THEN <<>>
  ELSE Let(trim(lines[index]), LAMBDA trimmed :
         LET first == \A j \in 1..(index - 1) : trim(lines[j]) # trimmed
             counted == Len(trimmed) > 5 /\ Len(trimmed) < 150
         IN  (IF counted /\ first /\ trimmed \notin ObjectPrototypeKeys
                 /\ lineFrequency(lines, trimmed) >= 2
              THEN <<trimmed>> ELSE <<>>)
               \o repeatedLinesFrom(lines, index + 1))

repeatedLines(cleaned) ==
  Let(splitLines(cleaned), LAMBDA lines : repeatedLinesFrom(lines, 1))

RECURSIVE removeLines(_, _)
removeLines(cleaned, lines) ==
  IF lines = <<>> THEN cleaned
  ELSE LET regex == Regex(RxSeq(<<RxBol, RxStar(RxWs), RxLit(Head(lines)),
                                  RxStar(RxWs), RxEol>>), {"g", "m"})
       IN  Let(replace(cleaned, regex, <<>>), LAMBDA without :
           Let(Tail(lines), LAMBDA rest : removeLines(without, rest)))

removeRepeatedLines(cleaned) ==
  Let(repeatedLines(cleaned), LAMBDA lines : removeLines(cleaned, lines))

\* 10. Remove CONFLICTS OF INTEREST section and everything after
conflictsPattern ==
  Regex(RxWord(RxAlt(<<
    RxWords(<<RxSeq(<<RxLit(<<"C","O","N","F","L","I","C","T">>), RxOpt(RxLit(<<"S">>))>>), RxLit(<<"O","F">>), RxLit(<<"I","N","T","E","R","E","S","T">>)>>),
    RxWords(<<RxLit(<<"C","O","N","F","L","I","C","T">>), RxLit(<<"O","F">>), RxLit(<<"I","N","T","E","R","E","S","T">>)>>),
    RxWords(<<RxLit(<<"C","O","M","P","E","T","I","N","G">>), RxSeq(<<RxLit(<<"I","N","T","E","R","E","S","T">>), RxOpt(RxLit(<<"S">>))>>)>>),
    RxWords(<<RxLit(<<"K","O","N","F","L","I","K">>), RxLit(<<"K","E","P","E","N","T","I","N","G","A","N">>)>>)>>)), {"i"})

cutConflicts(cleaned) ==
  Let(search(cleaned, conflictsPattern), LAMBDA conflictsIndex :
    IF conflictsIndex > 0 THEN trim(substringTo(cleaned, conflictsIndex)) ELSE cleaned)

\* 11. Remove ACKNOWLEDGMENTS/ACKNOWLEDGEMENTS section and everything after
acknowledgmentsPattern ==
  Regex(RxWord(RxAlt(<<
    RxSeq(<<RxLit(<<"A","C","K","N","O","W","L","E","D","G","M","E","N","T">>), RxOpt(RxLit(<<"S">>))>>),
    RxSeq(<<RxLit(<<"A","C","K","N","O","W","L","E","D","G","E","M","E","N","T">>), RxOpt(RxLit(<<"S">>))>>),
    RxWords(<<RxLit(<<"U","C","A","P","A","N">>), RxLit(<<"T","E","R","I","M","A">>), RxLit(<<"K","A","S","I","H">>)>>)>>)), {"i"})

cutAcknowledgments(cleaned) ==
  Let(search(cleaned, acknowledgmentsPattern), LAMBDA acknowledgmentsIndex :
    IF acknowledgmentsIndex > 0 /\ 10 * acknowledgmentsIndex < 9 * Len(cleaned)
    THEN trim(substringTo(cleaned, acknowledgmentsIndex)) ELSE cleaned)

\* 12. Remove REFERENCES section and everything after
referencesPattern ==
  Regex(RxWord(RxAlt(<<
    RxSeq(<<RxLit(<<"R","E","F","E","R","E","N","C","E">>), RxOpt(RxLit(<<"S">>))>>),
    RxWords(<<RxLit(<<"D","A","F","T","A","R">>), RxLit(<<"P","U","S","T","A","K","A">>)>>),
    RxLit(<<"B","I","B","L","I","O","G","R","A","P","H","Y">>),
    RxLit(<<"L","I","T","E","R","A","T","U","R">>),
    RxSeq(<<RxLit(<<"C","I","T","A","T","I","O","N">>), RxOpt(RxLit(<<"S">>))>>)>>)), {"i"})

numberedRefsPattern ==
  Regex(RxSeq(<<RxBol, RxStar(RxWs), RxPlus(RxDigit), RxChar({"."}), RxPlus(RxWs),
                RxChar(Range(UpperLetters))>>), {"m"})

referencesIndex(cleaned) == search(cleaned, referencesPattern)
afterSection(cleaned) ==
  Let(referencesIndex(cleaned), LAMBDA index : substringFrom(cleaned, index))
hasNumberedRefs(cleaned) ==
  Let(afterSection(cleaned), LAMBDA after : test(numberedRefsPattern, after))

\* the guard of step 12 with the position test inverted
referencesCut_Last10(cleaned) ==
  /\ referencesIndex(cleaned) > 0
  /\ 10 * referencesIndex(cleaned) >= 9 * Len(cleaned)
  /\ \/ hasNumberedRefs(cleaned)
     \/ 10 * Len(afterSection(cleaned)) < 4 * Len(cleaned)

referencesCut(cleaned) ==
  /\ referencesIndex(cleaned) > 0
  /\ 10 * referencesIndex(cleaned) < 9 * Len(cleaned)
  /\ \/ hasNumberedRefs(cleaned)
     \/ 10 * Len(afterSection(cleaned)) < 4 * Len(cleaned)

cutReferences(cleaned) ==
  IF referencesCut(cleaned)
  THEN Let(referencesIndex(cleaned), LAMBDA index : trim(substringTo(cleaned, index)))
  ELSE cleaned

\* 13. Remove AUTHOR CONTRIBUTIONS and similar sections
authorPattern ==
  Regex(RxWord(RxAlt(<<
    RxWords(<<RxSeq(<<RxLit(<<"A","U","T","H","O","R">>), RxOpt(RxLit(<<"S">>))>>),
              RxSeq(<<RxLit(<<"C","O","N","T","R","I","B","U","T","I","O","N">>), RxOpt(RxLit(<<"S">>))>>)>>),
    RxWords(<<RxLit(<<"K","O","N","T","R","I","B","U","S","I">>), RxLit(<<"P","E","N","U","L","I","S">>)>>)>>)), {"i"})

cutAuthorContributions(cleaned) ==
  Let(search(cleaned, authorPattern), LAMBDA authorIndex :
    IF authorIndex > 0 /\ 10 * authorIndex < 9 * Len(cleaned)
    THEN trim(substringTo(cleaned, authorIndex)) ELSE cleaned)

\* 14. Remove figure/table captions
removeCaptions(cleaned) ==
  replace(cleaned,
    Regex(RxSeq(<<RxBol,
                  RxAlt(<<RxLit(<<"F","i","g","u","r","e">>), RxLit(<<"F","i","g",".">>), RxLit(<<"T","a","b","l","e">>),
                          RxLit(<<"T","a","b","e","l">>), RxLit(<<"G","a","m","b","a","r">>)>>),
                  RxStar(RxWs), RxPlus(RxDigit), RxChar({":", "."}),
                  RxRep(RxAny, 0, 200, FALSE), RxEol>>),
          {"g", "m", "i"}), <<>>)

\* 15. Final cleanup
finalCleanup(cleaned) == Let(collapseBlankLines(cleaned), LAMBDA collapsed : trim(collapsed))

\* the value of cleaned after each numbered step, in the order of the code
\* (step 2 is followed by the additional header patterns)
cleanStep(step, cleaned, headerPattern, footerPattern) ==
  CASE step = 1 -> startFromAbstract(cleaned)
    [] step = 2 -> removeJournalHeaders(removeHeaderPattern(cleaned, headerPattern))
    [] step = 3 -> removeFooterPattern(cleaned, footerPattern)
    [] step = 4 -> removeJournalFooters(cleaned)
    [] step = 5 -> removeMetadata(cleaned)
    [] step = 6 -> removePageNumbers(cleaned)
    [] step = 7 -> normalizeWhitespace(cleaned)
    [] step = 8 -> filterLines(cleaned)
    [] step = 9 -> removeRepeatedLines(cleaned)
    [] step = 10 -> cutConflicts(cleaned)
    [] step = 11 -> cutAcknowledgments(cleaned)
    [] step = 12 -> cutReferences(cleaned)
    [] step = 13 -> cutAuthorContributions(cleaned)
    [] step = 14 -> removeCaptions(cleaned)
    [] step = 15 -> finalCleanup(cleaned)

RECURSIVE cleanStepsFrom(_, _, _, _)
cleanStepsFrom(done, cleaned, headerPattern, footerPattern) ==
  IF Len(done) = 15 THEN done
  ELSE Let(cleanStep(Len(done) + 1, cleaned, headerPattern, footerPattern), LAMBDA next :
       Let(Append(done, next), LAMBDA steps :
         cleanStepsFrom(steps, next, headerPattern, footerPattern)))

cleanSteps(text, headerPattern, footerPattern) ==
  cleanStepsFrom(<<>>, text, headerPattern, footerPattern)

cleanAcademicText(text, headerPattern, footerPattern) ==
  cleanSteps(text, headerPattern, footerPattern)[15]

(***************************************************************************)
(* JSON.parse of the JavaScript runtime.  A value is a record: a string    *)
(* holds its characters, a number the text it was written as, an array its *)
(* items, an object the function from its keys to their values.            *)
(***************************************************************************)
JString(chars) == [t |-> "string", chars |-> chars]
JNumber(text) == [t |-> "number", text |-> text]
JLiteral(name) == [t |-> name]
JArray(items) == [t |-> "array", items |-> items]
JObject(members) == [t |-> "object", members |-> members]
SyntaxError == [t |-> "SyntaxError"]

\* String.prototype.startsWith
startsWith(s, prefix) == Len(prefix) <= Len(s) /\ SubSeq(s, 1, Len(prefix)) = prefix

JFail == [ok |-> FALSE, v |-> <<>>, next |-> 0]
JOk(v, next) == [ok |-> TRUE, v |-> v, next |-> next]

HexDigits == Digits \cup {"a","b","c","d","e","f","A","B","C","D","E","F"}
ControlCharacters == {"\t", "\n", "\r"}

\* -?(0|[1-9][0-9]*)(\.[0-9]+)?([eE][+-]?[0-9]+)?
JNumberPattern ==
  Regex(RxSeq(<<RxOpt(RxChar({"-"})),
                RxAlt(<<RxSeq(<<RxChar(Digits \ {"0"}), RxStar(RxDigit)>>), RxChar({"0"})>>),
                RxOpt(RxSeq(<<RxChar({"."}), RxPlus(RxDigit)>>)),
                RxOpt(RxSeq(<<RxChar({"e", "E"}), RxOpt(RxChar({"+", "-"})), RxPlus(RxDigit)>>))>>),
        {})

RECURSIVE skipWs(_, _)
skipWs(s, i) == IF i <= Len(s) /\ s[i] \in WhiteSpace THEN skipWs(s, i + 1) ELSE i

\* the characters of a string literal whose opening quote is before position i
RECURSIVE parseChars(_, _, _)
parseChars(s, i, acc) ==
  IF i > Len(s) \/ s[i] \in ControlCharacters THEN JFail
  ELSE IF s[i] = "\"" THEN JOk(JString(acc), i + 1)
  ELSE IF s[i] # "\\" THEN parseChars(s, i + 1, Append(acc, s[i]))
  ELSE IF i + 1 > Len(s) THEN JFail
  ELSE IF s[i + 1] \in {"\"", "\\", "/"} THEN parseChars(s, i + 2, Append(acc, s[i + 1]))
  ELSE IF s[i + 1] = "n" THEN parseChars(s, i + 2, Append(acc, "\n"))
  ELSE IF s[i + 1] = "r" THEN parseChars(s, i + 2, Append(acc, "\r"))
  ELSE IF s[i + 1] = "t" THEN parseChars(s, i + 2, Append(acc, "\t"))
  ELSE IF s[i + 1] = "b" THEN parseChars(s, i + 2, Append(acc, [u |-> <<"0","0","0","8">>]))
  ELSE IF s[i + 1] = "f" THEN parseChars(s, i + 2, Append(acc, [u |-> <<"0","0","0","c">>]))
  ELSE IF s[i + 1] = "u" /\ i + 5 <= Len(s) /\ \A k \in 2..5 : s[i + k] \in HexDigits
  THEN parseChars(s, i + 6, Append(acc, [u |-> toLowerCase(SubSeq(s, i + 2, i + 5))]))
  ELSE JFail

RECURSIVE parseValue(_, _)
RECURSIVE parseItems(_, _, _)
RECURSIVE parseMembers(_, _, _)

\* the value that starts at position i (white space before it already skipped)
parseValue(s, i) ==
  IF i > Len(s) THEN JFail
  ELSE IF s[i] = "{"
  THEN LET j == skipWs(s, i + 1)
       IN  IF j <= Len(s) /\ s[j] = "}" THEN JOk(JObject(<<>>), j + 1)
           ELSE parseMembers(s, j, <<>>)
  ELSE IF s[i] = "["
  THEN LET j == skipWs(s, i + 1)
       IN  IF j <= Len(s) /\ s[j] = "]" THEN JOk(JArray(<<>>), j + 1)
           ELSE parseItems(s, j, <<>>)
  ELSE IF s[i] = "\"" THEN parseChars(s, i + 1, <<>>)
  ELSE IF startsWith(substringFrom(s, i - 1), <<"t","r","u","e">>) THEN JOk(JLiteral("true"), i + 4)
  ELSE IF startsWith(substringFrom(s, i - 1), <<"f","a","l","s","e">>) THEN JOk(JLiteral("false"), i + 5)
  ELSE IF startsWith(substringFrom(s, i - 1), <<"n","u","l","l">>) THEN JOk(JLiteral("null"), i + 4)
  ELSE LET ends == RxEnds(JNumberPattern.node, JNumberPattern, s, i)
       IN  IF ends = <<>> THEN JFail
           ELSE JOk(JNumber(SubSeq(s, i, ends[1] - 1)), ends[1])

\* the items of an array from position i on, after the items in acc
parseItems(s, i, acc) ==
  LET item == parseValue(s, i)
      j == skipWs(s, item.next)
  IN  IF ~item.ok \/ j > Len(s) THEN JFail
      ELSE IF s[j] = "]" THEN JOk(JArray(Append(acc, item.v)), j + 1)
      ELSE IF s[j] = "," THEN parseItems(s, skipWs(s, j + 1), Append(acc, item.v))
      ELSE JFail

\* the members of an object from position i on, after the members in acc;
\* a key that comes again takes the later value
parseMembers(s, i, acc) ==
  IF i > Len(s) \/ s[i] # "\"" THEN JFail
  ELSE LET key == parseChars(s, i + 1, <<>>)
           colon == skipWs(s, key.next)
       IN  IF ~key.ok \/ colon > Len(s) \/ s[colon] # ":" THEN JFail
           ELSE LET value == parseValue(s, skipWs(s, colon + 1))
                    j == skipWs(s, value.next)
                    members == [k \in DOMAIN acc \cup {key.v.chars} |->
                                  IF k = key.v.chars THEN value.v ELSE acc[k]]
                IN  IF ~value.ok \/ j > Len(s) THEN JFail
                    ELSE IF s[j] = "}" THEN JOk(JObject(members), j + 1)
                    ELSE IF s[j] = "," THEN parseMembers(s, skipWs(s, j + 1), members)
                    ELSE JFail

\* JSON.parse: the value of the text, or SyntaxError when it throws
JSONparse(text) ==
  LET value == parseValue(text, skipWs(text, 1))
  IN  IF value.ok /\ skipWs(text, value.next) = Len(text) + 1 THEN value.v
      ELSE SyntaxError

(***************************************************************************)
(* lib/text-utils.ts: parseJSONResponse                                    *)
(***************************************************************************)
\* String.prototype.repeat
repeat(ch, n) == RxTuple([i \in 1..n |-> ch])

\* (s.match(/c/g) || []).length
countOf(s, ch) == Len(matchAll(s, Regex(RxChar({ch}), {"g"})))

\* the grave accent U+0060, which a string of this notation cannot hold
Backtick == "U+0060"
Fence == <<Backtick, Backtick, Backtick>>
FenceJson == Fence \o <<"j","s","o","n">>

fenceJson == Regex(RxSeq(<<RxLit(FenceJson), RxOpt(RxChar({"\n"}))>>), {"g"})
fencePlain == Regex(RxSeq(<<RxLit(Fence), RxOpt(RxChar({"\n"}))>>), {"g"})

\* Remove markdown code blocks if present
stripCodeFences(content) ==
  IF startsWith(content, FenceJson)
  THEN replace(replace(content, fenceJson, <<>>), fencePlain, <<>>)
  ELSE IF startsWith(content, Fence) THEN replace(content, fencePlain, <<>>)
  ELSE content

\* Clean up common JSON issues
cleanUpJSON(jsonContent) ==
  LET a == replace(jsonContent, Regex(RxChar(ControlCharacters), {"g"}), <<>>)
      b == replace(a, Regex(RxChar({"\r"}), {"g"}), <<>>)
      c == replace(b, Regex(RxChar({"\n"}), {"g"}), <<" ">>)
      d == replace(c, Regex(RxChar({"\t"}), {"g"}), <<" ">>)
      e == replace(d, Regex(RxPlus(RxWs), {"g"}), <<" ">>)
  IN  trim(e)

\* 1. Fix unterminated strings: in a quoted text that holds a newline, the
\*    first newline becomes a space ($1 $2)
joinBrokenStrings(jsonContent) ==
  replaceEach(jsonContent,
    Regex(RxSeq(<<RxChar({"\""}), RxLazyStar(RxNot({"\""})), RxChar({"\n"}),
                  RxLazyStar(RxNot({"\""})), RxChar({"\""})>>), {"g"}),
    LAMBDA matched : replace(matched, Regex(RxChar({"\n"}), {}), <<" ">>))

\* 2. Fix single quotes to double quotes
doubleQuotes(jsonContent) ==
  replace(jsonContent, Regex(RxChar({"'"}), {"g"}), <<"\"">>)

\* 3. replace(/,\s*([}\]])/g, '$1'): the closing character alone stays
dropTrailingCommas(jsonContent) ==
  replaceEach(jsonContent,
    Regex(RxSeq(<<RxChar({","}), RxStar(RxWs), RxChar({"}", "]"})>>), {"g"}),
    LAMBDA matched : <<matched[Len(matched)]>>)

\* 4. Try to fix incomplete JSON by closing arrays/objects
closeOpen(jsonContent) ==
  LET openBraces == countOf(jsonContent, "{")
      closeBraces == countOf(jsonContent, "}")
      openBrackets == countOf(jsonContent, "[")
      closeBrackets == countOf(jsonContent, "]")
      withBrackets == IF openBrackets > closeBrackets
                      THEN jsonContent \o repeat("]", openBrackets - closeBrackets)
                      ELSE jsonContent
  IN  IF openBraces > closeBraces
      THEN withBrackets \o repeat("}", openBraces - closeBraces)
      ELSE withBrackets

\* the text handed to JSON.parse
repairedJSON(content) ==
  closeOpen(dropTrailingCommas(doubleQuotes(joinBrokenStrings(
    cleanUpJSON(stripCodeFences(content))))))

parseJSONResponse(content) == JSONparse(repairedJSON(content))

(***************************************************************************)
(* The upload page: createChunks.  The call is followed iteration by       *)
(* iteration of its for loop.                                              *)
(***************************************************************************)
DefaultSentencesPerChunk == 12
DefaultOverlapSentences == 3

\* Array.prototype.slice(start, end): a negative index counts from the end
sliceIndex(k, length) ==
  IF k < 0 THEN (IF length + k < 0 THEN 0 ELSE length + k)
  ELSE IF k > length THEN length ELSE k
slice(list, start, end) ==
  SubSeq(list, sliceIndex(start, Len(list)) + 1, sliceIndex(end, Len(list)))

\* text.match(/Isi:\s*([\s\S]*)/): what follows the first Isi:, trimmed,
\* or the text itself where there is none
contentOf(text) ==
  Let(search(text, Regex(RxLit(<<"I","s","i",":">>), {})), LAMBDA at :
    IF at = 0 - 1 THEN text ELSE trim(substringFrom(text, at + 4)))

\* content.split(/(?<=[.!?])\s+/): the separators are the runs of white space
\* that come right after a full stop, an exclamation or a question mark
SentenceEnders == {".", "!", "?"}
sentenceBreaks(s) ==
  {p \in 2..Len(s) : s[p - 1] \in SentenceEnders /\ s[p] \in WhiteSpace}
ascending(set) ==
  RxTuple([k \in 1..Cardinality(set) |->
     CHOOSE p \in set : Cardinality({q \in set : q < p}) = k - 1])
\* the first position after the run of white space that starts at p
runEnd(s, p) ==
  CHOOSE q \in (p + 1)..(Len(s) + 1) :
    /\ q = Len(s) + 1 \/ s[q] \notin WhiteSpace
    /\ \A r \in p..(q - 1) : s[r] \in WhiteSpace
splitSentences(content) ==
  Let(content, LAMBDA s :
  Let(ascending(sentenceBreaks(s)), LAMBDA breaks :
    RxTuple([k \in 1..(Len(breaks) + 1) |->
       SubSeq(s, IF k = 1 THEN 1 ELSE runEnd(s, breaks[k - 1]),
                 IF k > Len(breaks) THEN Len(s) ELSE breaks[k] - 1)])))

\* .map(s => s.trim()).filter(s => s.length > 10)
qualifyingSentences(content) ==
  Let(splitSentences(content), LAMBDA pieces :
  Let(RxTuple([k \in 1..Len(pieces) |-> trim(pieces[k])]), LAMBDA trimmed :
    SelectSeq(trimmed, LAMBDA sentence : Len(sentence) > 10)))

\* chunkSentences.join(' ')
RECURSIVE joinSpaceFrom(_, _)
joinSpaceFrom(list, from) ==
  IF from > Len(list) THEN <<>>
  ELSE IF from = Len(list) THEN list[from]
  ELSE list[from] \o <<" ">> \o joinSpaceFrom(list, from + 1)
joinSpace(list) == Let(list, LAMBDA all : joinSpaceFrom(all, 1))

\* chunkText.split(/\s+/).length: one more than the runs of white space
wordCountOf(s) ==
  1 + Cardinality({p \in 1..Len(s) :
        s[p] \in WhiteSpace /\ (p = 1 \/ s[p - 1] \notin WhiteSpace)})

\* i += sentencesPerChunk - overlapSentences, with no overlap at all
stride_NoOverlap(sentencesPerChunk, overlapSentences) == sentencesPerChunk
stride(sentencesPerChunk, overlapSentences) == sentencesPerChunk - overlapSentences

\* the break of the loop left out
reachedEnd_Never(i, sentencesPerChunk, sentences) == FALSE
\* if (i + sentencesPerChunk >= sentences.length) break
reachedEnd(i, sentencesPerChunk, sentences) == i + sentencesPerChunk >= Len(sentences)

\* the call with its arguments, before its first statement
createChunksCall(text, sentencesPerChunk, overlapSentences) ==
  [pc |-> "split", text |-> text, sentencesPerChunk |-> sentencesPerChunk,
   overlapSentences |-> overlapSentences, sentences |-> <<>>, i |-> 0,
   chunks |-> <<>>, chunkId |-> 1, iterations |-> 0]

\* the statements before the loop
createChunksSplit(call) ==
  [call EXCEPT !.pc = "loop", !.sentences = qualifyingSentences(contentOf(call.text))]

\* one turn of the for loop: its test, its body, its increment
createChunksIteration(call) ==
  IF ~(call.i < Len(call.sentences)) THEN [call EXCEPT !.pc = "return"]
  ELSE Let(joinSpace(slice(call.sentences, call.i, call.i + call.sentencesPerChunk)),
           LAMBDA chunkText :
       LET pushed == IF Len(trim(chunkText)) > 0
                     THEN [call EXCEPT
                             !.chunks = Append(@, [id |-> call.chunkId, text |-> chunkText,
                                                   wordCount |-> wordCountOf(chunkText),
                                                   charCount |-> Len(chunkText)]),
                             !.chunkId = @ + 1]
                     ELSE call
       IN  IF reachedEnd(call.i, call.sentencesPerChunk, call.sentences)
           THEN [pushed EXCEPT !.pc = "return", !.iterations = @ + 1]
           ELSE [pushed EXCEPT !.i = @ + stride(call.sentencesPerChunk, call.overlapSentences),
                               !.iterations = @ + 1])

\* createChunks as a function of its arguments, where its loop ends
RECURSIVE createChunksRun(_)
createChunksRun(call) ==
  IF call.pc = "return" THEN call.chunks
  ELSE Let(IF call.pc = "split" THEN createChunksSplit(call)
           ELSE createChunksIteration(call), LAMBDA next : createChunksRun(next))
createChunks(text, sentencesPerChunk, overlapSentences) ==
  createChunksRun(createChunksCall(text, sentencesPerChunk, overlapSentences))

(***************************************************************************)
(* UploadPage: the state hooks and the handlers of the buttons.  A text, a *)
(* list of chunks, of vectors or of graphs is named by the document it was *)
(* computed from; None is the empty text, the empty list and null.         *)
(***************************************************************************)
None == "none"
Documents == {"A", "B"}
NotPdf == "notPdf"
Idle == [pc |-> "idle", of |-> None]
NoBody == [metadata |-> None, fileUrl |-> None, chunks |-> None, vectors |-> None,
           graphs |-> None]
SaveIdle == [pc |-> "idle", of |-> NoBody]

\* useState(...) of every hook, and no request in flight
PageIdle ==
  [file |-> None, uploading |-> FALSE, extractedText |-> None, cleanedText |-> None,
   error |-> "", chunks |-> None, vectors |-> None, vectorizing |-> FALSE,
   graphs |-> None, extractingGraph |-> FALSE, uploadingToDb |-> FALSE,
   metadata |-> None, fileUrl |-> None, showSuccessModal |-> FALSE,
   upload |-> Idle, vectorize |-> Idle, extract |-> Idle, save |-> SaveIdle]

\* the overlay of the success modal covers every other button
ButtonsReachable == ~page.showSuccessModal

HandleFileChange(selectedFile) ==
  /\ ButtonsReachable
  /\ page' = IF selectedFile \in Documents
             THEN [page EXCEPT !.file = selectedFile, !.error = "",
                                !.extractedText = None, !.cleanedText = None,
                                !.chunks = None]
             ELSE [page EXCEPT !.error = "Please select a valid PDF file",
                                !.file = None]
  /\ PageFrame

\* handleUpload up to its first await
HandleUpload ==
  /\ ButtonsReachable
  /\ page.file # None /\ ~page.uploading
  /\ page' = [page EXCEPT !.uploading = TRUE, !.error = "",
                          !.upload = [pc |-> "upload-file", of |-> page.file]]
  /\ PageFrame

\* /api/upload-file answers
UploadFileSettles(ok) ==
  /\ page.upload.pc = "upload-file"
  /\ page' = IF ok
             THEN [page EXCEPT !.fileUrl = page.upload.of, !.upload.pc = "upload"]
             ELSE [page EXCEPT !.error = "Failed to upload file to storage",
                                !.uploading = FALSE, !.upload = Idle]
  /\ PageFrame

\* /api/upload answers
UploadSettles(ok) ==
  /\ page.upload.pc = "upload"
  /\ page' = IF ok
             THEN [page EXCEPT !.extractedText = page.upload.of,
                                !.cleanedText = page.upload.of,
                                !.metadata = page.upload.of,
                                !.chunks = page.upload.of,
                                !.uploading = FALSE, !.upload = Idle]
             ELSE [page EXCEPT !.error = "Failed to process PDF",
                                !.uploading = FALSE, !.upload = Idle]
  /\ PageFrame

\* the state handleReset leaves
handleReset ==
  [page EXCEPT !.file = None, !.extractedText = None, !.cleanedText = None,
               !.chunks = None, !.vectors = None, !.graphs = None,
               !.metadata = None, !.fileUrl = None, !.error = ""]

\* the reset button is rendered when a file is chosen
HandleReset ==
  /\ ButtonsReachable
  /\ page.file # None
  /\ page' = handleReset
  /\ PageFrame

\* the two buttons of the success modal
UploadNew ==
  /\ page.showSuccessModal
  /\ page' = [handleReset EXCEPT !.showSuccessModal = FALSE]
  /\ PageFrame

CloseModal ==
  /\ page.showSuccessModal
  /\ page' = [page EXCEPT !.showSuccessModal = FALSE]
  /\ PageFrame

\* the chunk section is rendered when there are chunks
HandleVectorize ==
  /\ ButtonsReachable
  /\ page.chunks # None
  /\ ~(page.vectorizing \/ page.vectors # None)
  /\ page' = [page EXCEPT !.vectorizing = TRUE, !.error = "",
                          !.vectorize = [pc |-> "vectorize", of |-> page.chunks]]
  /\ PageFrame

VectorizeSettles(ok) ==
  /\ page.vectorize.pc = "vectorize"
  /\ page' = IF ok
             THEN [page EXCEPT !.vectors = page.vectorize.of,
                                !.vectorizing = FALSE, !.vectorize = Idle]
             ELSE [page EXCEPT !.error = "Failed to vectorize chunks",
                                !.vectorizing = FALSE, !.vectorize = Idle]
  /\ PageFrame

HandleGraphExtraction ==
  /\ ButtonsReachable
  /\ page.chunks # None
  /\ ~(page.extractingGraph \/ page.graphs # None)
  /\ page' = [page EXCEPT !.extractingGraph = TRUE, !.error = "",
                          !.extract = [pc |-> "extract-graph", of |-> page.chunks]]
  /\ PageFrame

ExtractGraphSettles(ok) ==
  /\ page.extract.pc = "extract-graph"
  /\ page' = IF ok
             THEN [page EXCEPT !.graphs = page.extract.of,
                                !.extractingGraph = FALSE, !.extract = Idle]
             ELSE [page EXCEPT !.error = "Failed to extract graph",
                                !.extractingGraph = FALSE, !.extract = Idle]
  /\ PageFrame

\* the Upload to Database button is rendered and enabled
UploadToDatabaseShown ==
  /\ ButtonsReachable
  /\ page.chunks # None
  /\ page.vectors # None /\ page.graphs # None
  /\ ~page.uploadingToDb

\* the body handleUploadToDatabase posts to /api/save-to-db
SaveBody ==
  [metadata |-> page.metadata, fileUrl |-> page.fileUrl, chunks |-> page.chunks,
   vectors |-> page.vectors, graphs |-> page.graphs]

HandleUploadToDatabase ==
  /\ UploadToDatabaseShown
  /\ page' = IF page.metadata = None
             THEN [page EXCEPT !.error = "Missing metadata. Please re-upload the PDF."]
             ELSE IF page.fileUrl = None
             THEN [page EXCEPT !.error = "File URL missing. Please re-upload the PDF."]
             ELSE [page EXCEPT !.uploadingToDb = TRUE, !.error = "",
                                !.save = [pc |-> "save-to-db", of |-> SaveBody]]
  /\ PageFrame

SaveSettles(ok) ==
  /\ page.save.pc = "save-to-db"
  /\ page' = IF ok
             THEN [page EXCEPT !.showSuccessModal = TRUE,
                                !.uploadingToDb = FALSE, !.save = SaveIdle]
             ELSE [page EXCEPT !.error = "Failed to upload to database",
                                !.uploadingToDb = FALSE, !.save = SaveIdle]
  /\ PageFrame


(***************************************************************************)
(* lib/graph-utils.ts called on its own                                    *)
(***************************************************************************)
\* no library function is called
FnIdle ==
  /\ fnArgs = Null
  /\ fnResult = <<>>
  /\ fnStep = 0

\* everything but the library call is at rest
RestInit ==
  /\ BatchInit
  /\ SaveInit
  /\ SearchIdle
  /\ faults = 0
  /\ callers = {}
  /\ deterministic = FALSE
  /\ page = PageIdle
  /\ cc = Null

\* all sequences over an alphabet up to a length
SeqsUpTo(alphabet, n) == UNION {[1..k -> alphabet] : k \in 0..n}

MaxNameLen == 4
NameAlphabet == {"a", "B", " ", ".", "(", "]"}

\* normalizeEntityName(name)
NormalizeName ==
  /\ fnStep = 0
  /\ fnResult' = <<normalizeEntityName(fnArgs)>>
  /\ fnStep' = 1
  /\ FnFrame

\* normalizeEntityName applied to its own result
NormalizeNameAgain ==
  /\ fnStep = 1
  /\ fnResult' = Append(fnResult, normalizeEntityName(fnResult[1]))
  /\ fnStep' = 2
  /\ FnFrame

NormalizeNext ==
  \/ NormalizeName
  \/ NormalizeNameAgain

MaxEntities == 3
EntityNames == { <<"a">>, <<"A">>, <<"a", ".">>, <<"a", "|", "b">> }
EntityTypes == { <<"c">>, <<"C">>, <<"b", "|", "c">> }
EntityInputs == [name : EntityNames, type : EntityTypes]

\* deduplicateEntities(entities)
DeduplicateEntities ==
  /\ fnStep = 0
  /\ fnResult' = <<deduplicateEntities(fnArgs)>>
  /\ fnStep' = 1
  /\ FnFrame

DedupEntitiesNext == DeduplicateEntities

MaxRelations == 3
RelationInputs ==
  [source : { <<"a">>, <<"A">>, <<"a", "|", "b">> },
   relation : { <<"c">>, <<"b", "|", "c">> },
   target : { <<"d">>, <<"D">> }]

\* deduplicateRelations(relations)
DeduplicateRelations ==
  /\ fnStep = 0
  /\ fnResult' = <<deduplicateRelations(fnArgs)>>
  /\ fnStep' = 1
  /\ FnFrame

DedupRelationsNext == DeduplicateRelations

MaxFilterRelations == 2
MaxValidEntities == 2
FilterRelationInputs ==
  [source : { <<>>, <<"a">>, <<"(", "A", ")">> },
   relation : { <<>>, <<"r">> },
   target : { <<>>, <<"a">>, <<"b", ".">> }]
ValidEntityInputs ==
  { [name |-> <<"A">>, type |-> <<"x">>],
    [name |-> <<" ", "b">>, type |-> <<"y">>],
    [name |-> <<"c">>, type |-> <<"x">>] }

\* filterRelationsByEntities(relations, validEntities)
FilterRelations ==
  /\ fnStep = 0
  /\ fnResult' = <<filterRelationsByEntities(fnArgs.relations, fnArgs.validEntities)>>
  /\ fnStep' = 1
  /\ FnFrame

FilterRelationsNext == FilterRelations

\* names and types that meet every rule of filterEntity
FilterNames ==
  {
    <<"a","b">>, <<"t","e","m","p","e","r","a","t","u","r","e">>,
    <<"T","e","m","p","e","r","a","t","u","r","e">>, <<"t","i","m","e">>, <<"5"," ","m","g">>,
    <<"1","0","°","c">>, <<"3","0"," ","M","i","n","u","t","e","s">>, <<"m","g">>,
    <<"c","a","r","r","y"," ","o","u","t">>, <<"P","e","r","f","o","r","m">>,
    <<"s","t","o","r","e">>, <<"C","u","r","c","u","m","a"," ","l","o","n","g","a">>,
    <<"o","r","a","l"," ","d","o","s","e">>,
    <<"a","n","t","i","-","i","n","f","l","a","m","m","a","t","o","r","y">>,
    <<"g","i","n","g","e","r","o","l">>, <<"z","i","n","c">>,
    <<"i","n","h","i","b","i","t","i","o","n">>,
    <<"c","o","x","-","2"," ","e","n","z","y","m","e"," ","i","n","h","i","b","i","t","i","o","n">>,
    <<"h","p","l","c"," ","a","n","a","l","y","s","i","s">>, <<"a","s","s","a","y">>,
    <<"e","x","t","r","a","c","t"," ","a","n","a","l","y","s","i","s">>,
    <<"a","n","t","i","o","x","i","d","a","n","t"," ","a","c","t","i","v","i","t","y"," ","a","s","s","a","y">>
  }

FilterTypes ==
  {
    <<"P","L","A","N","T">>, <<"M","e","d","i","c","i","n","a","l"," ","P","l","a","n","t">>,
    <<"d","i","s","e","a","s","e">>, <<"S","Y","M","P","T","O","M">>, <<"D","O","S","A","G","E">>,
    <<"M","E","T","H","O","D">>, <<"E","F","F","E","C","T">>, <<"C","O","M","P","O","U","N","D">>,
    <<"M","E","C","H","A","N","I","S","M">>, <<"c","o","n","d","i","t","i","o","n">>, <<>>
  }

\* filterEntity(entity)
FilterEntity ==
  /\ fnStep = 0
  /\ fnResult' = <<filterEntity(fnArgs)>>
  /\ fnStep' = 1
  /\ FnFrame

FilterEntityNext == FilterEntity

(***************************************************************************)
(* lib/text-utils.ts called on its own: the documents cleanAcademicText is *)
(* given are assembled from the lines of a short paper.                    *)
(***************************************************************************)
L_ABSTRACT == <<"A","B","S","T","R","A","C","T">>
L_REFERENCES == <<"R","E","F","E","R","E","N","C","E","S">>
L_Numbered == <<"1","."," ","S","m","i","t","h"," ","J",".">>
L_Unnumbered == <<"S","m","i","t","h"," ","J",".">>
P_Intro == <<"G","i","n","g","e","r"," ","r","h","i","z","o","m","e"," ","h","a","s"," ","l","o","n","g"," ","b","e","e","n"," ","u","s","e","d"," ","t","o"," ","r","e","l","i","e","v","e"," ","n","a","u","s","e","a"," ","a","n","d"," ","p","a","i","n",".">>
P_Result == <<"T","h","e"," ","e","x","t","r","a","c","t"," ","r","e","d","u","c","e","d"," ","s","w","e","l","l","i","n","g"," ","i","n"," ","t","r","e","a","t","e","d"," ","g","r","o","u","p","s"," ","a","f","t","e","r"," ","t","w","o"," ","w","e","e","k","s",".">>
P_Mention == <<"E","a","r","l","i","e","r"," ","r","e","f","e","r","e","n","c","e","s"," ","d","e","s","c","r","i","b","e"," ","t","h","e"," ","s","a","m","e"," ","e","f","f","e","c","t"," ","i","n"," ","t","r","e","a","t","e","d"," ","g","r","o","u","p","s",".">>
P_Outlook == <<"F","u","r","t","h","e","r"," ","w","o","r","k"," ","s","h","o","u","l","d"," ","m","e","a","s","u","r","e"," ","t","h","e"," ","d","o","s","e"," ","r","e","s","p","o","n","s","e"," ","o","f"," ","g","i","n","g","e","r","o","l"," ","i","n"," ","l","a","r","g","e","r"," ","g","r","o","u","p","s"," ","a","n","d"," ","r","e","c","o","r","d"," ","a","d","v","e","r","s","e"," ","e","v","e","n","t","s",".">>
RunningHeaders == {<<"H","e","r","b","a","l"," ","N","o","t","e","s">>, <<"t","o","S","t","r","i","n","g">>}
HeaderPatterns == {<<>>, <<"H","e","r","b","a","l"," ","N","o","t","e","s">>}
Tails == {<<>>, <<L_REFERENCES, L_Numbered>>, <<L_REFERENCES, L_Unnumbered>>}

Opt(present, line) == IF present THEN <<line>> ELSE <<>>

Document(header, at, abstract, mention, outlook, tail) ==
  joinLines(Opt(1 \in at, header) \o Opt(abstract, L_ABSTRACT) \o <<P_Intro>>
            \o Opt(2 \in at, header) \o <<IF mention THEN P_Mention ELSE P_Result>>
            \o Opt(outlook, P_Outlook) \o tail)

CleanInputs ==
  { [text |-> Document(header, at, abstract, mention, outlook, tail),
     headerPattern |-> headerPattern, footerPattern |-> <<>>] :
      header \in RunningHeaders, at \in SUBSET {1, 2}, abstract \in BOOLEAN,
      mention \in BOOLEAN, outlook \in BOOLEAN, tail \in Tails,
      headerPattern \in HeaderPatterns }

\* fnResult records cleaned after each step; the last entry is what is returned
CleanAcademicText ==
  /\ fnStep = 0
  /\ fnResult' = cleanSteps(fnArgs.text, fnArgs.headerPattern, fnArgs.footerPattern)
  /\ fnStep' = 1
  /\ FnFrame

CleanTextNext == CleanAcademicText

(***************************************************************************)
(* parseJSONResponse called on its own: the content is a JSON document of  *)
(* nested arrays and objects, whole or with closing brackets and braces    *)
(* cut off its end, as it is or inside a json code fence.                  *)
(***************************************************************************)
MaxDepth == 3
Keys == <<"a", "b">>

Scalars ==
  { [text |-> <<"1">>, value |-> JNumber(<<"1">>)],
    [text |-> <<"\"", "x", "\"">>, value |-> JString(<<"x">>)] }
FirstItem == [text |-> <<"\"", "x", "\"">>, value |-> JString(<<"x">>)]
NoDoc == [text |-> <<>>, value |-> [t |-> "none"]]

RECURSIVE joinTexts(_, _)
joinTexts(texts, separator) ==
  IF texts = <<>> THEN <<>>
  ELSE IF Len(texts) = 1 THEN texts[1]
  ELSE texts[1] \o separator \o joinTexts(Tail(texts), separator)

ArrayDoc(docs, spaced) ==
  [text |-> <<"[">>
              \o joinTexts(RxTuple([i \in 1..Len(docs) |-> docs[i].text]),
                           IF spaced THEN <<",", " ">> ELSE <<",">>)
              \o <<"]">>,
   value |-> JArray(RxTuple([i \in 1..Len(docs) |-> docs[i].value]))]

ObjectDoc(docs, spaced) ==
  [text |-> <<"{">>
              \o joinTexts(RxTuple([i \in 1..Len(docs) |->
                             <<"\"", Keys[i], "\"">>
                               \o (IF spaced THEN <<":", " ">> ELSE <<":">>)
                               \o docs[i].text]),
                           IF spaced THEN <<",", " ">> ELSE <<",">>)
              \o <<"}">>,
   value |-> JObject([k \in {<<Keys[i]>> : i \in 1..Len(docs)} |->
                        docs[CHOOSE i \in 1..Len(docs) : <<Keys[i]>> = k].value])]

\* the document nested as the path says, outermost first: each array or object
\* holds, after a first item if there is to be one, the next array or object of
\* the path, and the innermost holds the leaf (nothing when the leaf is NoDoc)
RECURSIVE NestDoc(_, _, _, _)
NestDoc(path, leaf, first, spaced) ==
  IF path = <<>> THEN leaf
  ELSE LET child == NestDoc(Tail(path), leaf, first, spaced)
           docs == (IF first THEN <<FirstItem>> ELSE <<>>)
                     \o (IF child = NoDoc THEN <<>> ELSE <<child>>)
       IN  IF Head(path) = "array" THEN ArrayDoc(docs, spaced)
           ELSE ObjectDoc(docs, spaced)

JsonDocs ==
  { NestDoc(path, leaf, first, spaced) :
      path \in SeqsUpTo({"array", "object"}, MaxDepth),
      leaf \in Scalars \cup {NoDoc}, first \in BOOLEAN, spaced \in BOOLEAN } \ {NoDoc}

\* the number of closing brackets and braces the text ends in
closersAtEnd(text) ==
  CHOOSE k \in 0..Len(text) :
    /\ \A j \in (Len(text) - k + 1)..Len(text) : text[j] \in {"}", "]"}
    /\ k < Len(text) => text[Len(text) - k] \notin {"}", "]"}

fenced(text) == FenceJson \o <<"\n">> \o text \o <<"\n">> \o Fence

ParseInputs ==
  UNION { { [content |-> IF inFence THEN fenced(SubSeq(doc.text, 1, Len(doc.text) - cut))
                         ELSE SubSeq(doc.text, 1, Len(doc.text) - cut),
             document |-> doc] :
              cut \in 0..closersAtEnd(doc.text), inFence \in BOOLEAN } :
          doc \in JsonDocs }

\* a JSON string of two words with a run of white space between them, as the
\* only item of an array or the only member of an object
MaxRun == 2
Words == {<<"x">>, <<"n", "o">>}
WhitespaceRuns == SeqsUpTo({" ", "\r", "\n", "\t"}, MaxRun) \ {<<>>}
TwoWords(first, run, second) ==
  [text |-> <<"\"">> \o first \o run \o second \o <<"\"">>,
   value |-> JString(first \o <<" ">> \o second)]
WhitespaceInputs ==
  UNION { { [content |-> IF inFence THEN fenced(doc.text) ELSE doc.text,
             document |-> doc, run |-> run] :
              doc \in { NestDoc(<<kind>>, TwoWords(first, run, second), FALSE, FALSE) :
                          kind \in {"array", "object"}, first \in Words, second \in Words },
              inFence \in BOOLEAN } :
          run \in WhitespaceRuns }

ParseJSONResponse ==
  /\ fnStep = 0
  /\ fnResult' = <<parseJSONResponse(fnArgs.content)>>
  /\ fnStep' = 1
  /\ FnFrame

ParseJSONNext == ParseJSONResponse

(***************************************************************************)
(* createChunks called on its own: texts of up to MaxSentences sentences   *)
(* under the default parameters, and short texts under every pair of small *)
(* parameters, those with an overlap of a whole chunk or more included.    *)
(***************************************************************************)
MaxSentences == 31
MaxShortText == 5
MaxPerChunk == 3
MaxOverlap == 3
MaxIterations == 6

SentenceCodes == <<"a", "b", "c", "d", "e", "f">>
\* the k-th sentence of a text; no two of them are equal
Sentence(k) ==
  <<"G","i","n","g","e","r"," ">> \o <<SentenceCodes[(k \div 6) + 1], SentenceCodes[(k % 6) + 1]>> \o <<" ","h","e","l","p","s",".">>
ShortSentence == <<"Y","e","s",".">>
IsiHeader == <<"J","u","d","u","l",":"," ","J","a","h","e","\n","I","s","i",":"," ">>

\* the sentences 1 .. n, a short one after the first where there is to be one
TextSentences(n, short) ==
  RxTuple([k \in 1..n |->
     IF short /\ k = 1 THEN Sentence(k) \o <<" ">> \o ShortSentence ELSE Sentence(k)])
ChunkText(n, header, short) ==
  (IF header THEN IsiHeader ELSE <<>>) \o joinSpace(TextSentences(n, short))

ChunkInputs ==
  { createChunksCall(ChunkText(n, header, short),
                     DefaultSentencesPerChunk, DefaultOverlapSentences) :
      n \in 0..MaxSentences, header \in BOOLEAN, short \in BOOLEAN }
  \cup
  { createChunksCall(ChunkText(n, FALSE, FALSE), sentencesPerChunk, overlapSentences) :
      n \in 0..MaxShortText, sentencesPerChunk \in 1..MaxPerChunk,
      overlapSentences \in 0..MaxOverlap }

CreateChunksSplit ==
  /\ cc.pc = "split"
  /\ cc' = createChunksSplit(cc)
  /\ ChunksFrame

CreateChunksLoop ==
  /\ cc.pc = "loop"
  /\ cc.iterations < MaxIterations
  /\ cc' = createChunksIteration(cc)
  /\ ChunksFrame

ChunksNext == CreateChunksSplit \/ CreateChunksLoop

(***************************************************************************)
(* extractGraphFromChunk once the response body has been read, called on   *)
(* its own: contents with more entities than the limit, with entities the  *)
(* filter drops, and with relations to entities of every kind.             *)
(***************************************************************************)
\* the k-th plant of a content; no two of them are equal
Herb(k) == <<"H","e","r","b"," ">> \o <<SentenceCodes[(k \div 6) + 1], SentenceCodes[(k % 6) + 1]>>
HerbEntities(n) == RxTuple([k \in 1..n |-> [name |-> Herb(k), type |-> S_PLANT]])
DroppedEntity == [name |-> N_time, type |-> S_condition]
EntityCounts == {0, 1, 2, MaxEntitiesPerChunk, MaxEntitiesPerChunk + 1, MaxEntitiesPerChunk + 2}

\* relations between the first two plants (one in another letter case), to the
\* plant after the limit, to the entity the filter drops, and one without a verb
RelationPool ==
  << [source |-> Herb(1), relation |-> S_treats, target |-> Herb(2)],
     [source |-> toUpperCase(Herb(2)), relation |-> S_treats, target |-> Herb(1)],
     [source |-> Herb(1), relation |-> S_treats, target |-> Herb(MaxEntitiesPerChunk + 1)],
     [source |-> Herb(1), relation |-> S_causes, target |-> N_time],
     [source |-> Herb(1), relation |-> <<>>, target |-> Herb(1)] >>
PoolRelations(picked) ==
  SelectSeq(RxTuple([k \in 1..Len(RelationPool) |->
              [at |-> k, relation |-> RelationPool[k]]]),
            LAMBDA item : item.at \in picked)
RelationLists ==
  { RxTuple([k \in 1..Len(PoolRelations(picked)) |-> PoolRelations(picked)[k].relation]) :
      picked \in SUBSET (1..Len(RelationPool)) }

ExtractInputs ==
  { [chunkId |-> 1,
     content |-> [parses |-> parses,
                  entities |-> (IF droppedFirst THEN <<DroppedEntity>> ELSE <<>>)
                                 \o HerbEntities(n),
                  relations |-> relations]] :
      parses \in BOOLEAN, droppedFirst \in BOOLEAN, n \in EntityCounts,
      relations \in RelationLists }

ExtractGraphFromContent ==
  /\ fnStep = 0
  /\ fnResult' = <<extractGraphFromContent(fnArgs.chunkId, fnArgs.content)>>
  /\ fnStep' = 1
  /\ FnFrame

ExtractContentNext == ExtractGraphFromContent

(***************************************************************************)
(* UploadPage: what the user does and what the requests answer             *)
(***************************************************************************)
PageNext ==
  \/ \E selectedFile \in Documents \cup {NotPdf} : HandleFileChange(selectedFile)
  \/ HandleUpload
  \/ \E ok \in BOOLEAN : UploadFileSettles(ok)
  \/ \E ok \in BOOLEAN : UploadSettles(ok)
  \/ HandleReset
  \/ HandleVectorize
  \/ \E ok \in BOOLEAN : VectorizeSettles(ok)
  \/ HandleGraphExtraction
  \/ \E ok \in BOOLEAN : ExtractGraphSettles(ok)
  \/ HandleUploadToDatabase
  \/ \E ok \in BOOLEAN : SaveSettles(ok)
  \/ UploadNew
  \/ CloseModal

(***************************************************************************)
(* SPECIFICATIONS                                                          *)
(***************************************************************************)
\* every group of operations starts in its initial state
Init ==
  /\ BatchInit
  /\ SaveInit
  /\ SearchIdle
  /\ faults = 0
  /\ callers = {}
  /\ deterministic = FALSE
  /\ FnIdle
  /\ page = PageIdle
  /\ cc = Null

\* one query against a stored graph of a few relations, during which
\* collaborators can fail
InitSearch ==
  /\ BatchInit
  /\ sPc = "idle" /\ sParams = Null /\ sJournal = 0 /\ sCounts = <<>>
  /\ sEntityIdMap = <<>> /\ saveResponse = Null /\ saves = 0
  /\ dbJournals = {1}
  /\ dbEmbeddings \in {{}, StoredEmbeddings}
  /\ dbEntities = StoredEntities
  /\ dbRelations \in {g \in SUBSET CandidateRelations : Cardinality(g) <= MaxStoredRelations}
  /\ SearchIdle
  /\ faults = MaxFaults
  /\ callers = {"A"}
  /\ deterministic = FALSE
  /\ FnIdle
  /\ page = PageIdle
  /\ cc = Null

\* two queries at the same time against one stored graph
InitConcurrent ==
  /\ BatchInit
  /\ sPc = "idle" /\ sParams = Null /\ sJournal = 0 /\ sCounts = <<>>
  /\ sEntityIdMap = <<>> /\ saveResponse = Null /\ saves = 0
  /\ dbJournals = {1}
  /\ dbEmbeddings = {[journal_id |-> 1, chunk_index |-> 0]}
  /\ dbEntities = StoredEntities
  /\ dbRelations = {r \in CandidateRelations : r.id \in {1, 4, 6}}
  /\ SearchIdle
  /\ faults = 0
  /\ callers = Calls
  /\ deterministic = FALSE
  /\ FnIdle
  /\ page = PageIdle
  /\ cc = Null

\* two queries at the same time against one stored graph, with collaborators
\* that answer equal requests equally and can fail
InitDeterministic ==
  /\ BatchInit
  /\ sPc = "idle" /\ sParams = Null /\ sJournal = 0 /\ sCounts = <<>>
  /\ sEntityIdMap = <<>> /\ saveResponse = Null /\ saves = 0
  /\ dbJournals = {1}
  /\ dbEmbeddings = StoredEmbeddings
  /\ dbEntities = StoredEntities
  /\ dbRelations = {r \in CandidateRelations : r.id \in {1, 2, 4, 6}}
  /\ SearchIdle
  /\ faults = MaxFaults
  /\ callers = Calls
  /\ deterministic = TRUE
  /\ FnIdle
  /\ page = PageIdle
  /\ cc = Null

\* normalizeEntityName on every name over a small alphabet
InitNormalize ==
  /\ RestInit
  /\ fnArgs \in SeqsUpTo(NameAlphabet, MaxNameLen)
  /\ fnResult = <<>>
  /\ fnStep = 0

SpecNormalize == InitNormalize /\ [][NormalizeNext]_vars

\* deduplicateEntities on every short list of entities
InitDedupEntities ==
  /\ RestInit
  /\ fnArgs \in SeqsUpTo(EntityInputs, MaxEntities)
  /\ fnResult = <<>>
  /\ fnStep = 0

SpecDedupEntities == InitDedupEntities /\ [][DedupEntitiesNext]_vars

\* deduplicateRelations on every short list of relations
InitDedupRelations ==
  /\ RestInit
  /\ fnArgs \in SeqsUpTo(RelationInputs, MaxRelations)
  /\ fnResult = <<>>
  /\ fnStep = 0

SpecDedupRelations == InitDedupRelations /\ [][DedupRelationsNext]_vars

\* filterRelationsByEntities on short lists of relations and entities
InitFilterRelations ==
  /\ RestInit
  /\ fnArgs \in [relations : SeqsUpTo(FilterRelationInputs, MaxFilterRelations),
                 validEntities : SeqsUpTo(ValidEntityInputs, MaxValidEntities)]
  /\ fnResult = <<>>
  /\ fnStep = 0

SpecFilterRelations == InitFilterRelations /\ [][FilterRelationsNext]_vars

\* filterEntity on every pair of a name and a type
InitFilterEntity ==
  /\ RestInit
  /\ fnArgs \in [name : FilterNames, type : FilterTypes]
  /\ fnResult = <<>>
  /\ fnStep = 0

SpecFilterEntity == InitFilterEntity /\ [][FilterEntityNext]_vars

InitCleanText ==
  /\ RestInit
  /\ fnArgs \in CleanInputs
  /\ fnResult = <<>>
  /\ fnStep = 0

SpecCleanText == InitCleanText /\ [][CleanTextNext]_vars

InitParseJSON ==
  /\ RestInit
  /\ fnArgs \in ParseInputs
  /\ fnResult = <<>>
  /\ fnStep = 0

SpecParseJSON == InitParseJSON /\ [][ParseJSONNext]_vars

\* one call of createChunks
InitChunks ==
  /\ BatchInit
  /\ SaveInit
  /\ SearchIdle
  /\ faults = 0
  /\ callers = {}
  /\ deterministic = FALSE
  /\ FnIdle
  /\ page = PageIdle
  /\ cc \in ChunkInputs

SpecChunks == InitChunks /\ [][ChunksNext]_vars

\* the call goes on for as long as it has a next statement
SpecChunksFair == SpecChunks /\ WF_vars(ChunksNext)

\* one response body handed to the filter-and-limit pipeline
InitExtractContent ==
  /\ RestInit
  /\ fnArgs \in ExtractInputs
  /\ fnResult = <<>>
  /\ fnStep = 0

SpecExtractContent == InitExtractContent /\ [][ExtractContentNext]_vars

\* one content with white space inside a JSON string
InitParseWhitespace ==
  /\ RestInit
  /\ fnArgs \in WhitespaceInputs
  /\ fnResult = <<>>
  /\ fnStep = 0

SpecParseWhitespace == InitParseWhitespace /\ [][ParseJSONNext]_vars

\* the upload page as it is first rendered
InitPage ==
  /\ RestInit
  /\ FnIdle

SpecPage == InitPage /\ [][PageNext]_vars

SpecSearch == InitSearch /\ [][SearchNext]_vars

SpecConcurrent == InitConcurrent /\ [][SearchNext]_vars

SpecDeterministic == InitDeterministic /\ [][SearchNext]_vars

\* one extract-graph request
SpecBatch == Init /\ [][BatchNext]_vars

\* a sequence of save-to-db requests against the initially empty tables
SpecSave == Init /\ [][SaveNext]_vars

(***************************************************************************)
(* PROPERTIES                                                              *)
(***************************************************************************)

\* the batch a chunk position belongs to (0 for the first)
BatchIndex(p) == (p - 1) \div BATCH_SIZE

LostChunks == {p \in Positions : chunkResult[p] = Null}

\* C5: whatever requests fail, extractGraphsInBatches returns, with exactly
\* one result for each chunk whose extraction gave a non-null result and
\* none for any other chunk; the route then reports processed = number of
\* results and total = number of chunks, so processed <= total and
\* total - processed is the number of lost chunks.
C5_PartialSuccessTallies ==
  (bPc = "returned" /\ "success" \in DOMAIN extractResponse) =>
    /\ \A p \in Positions :
         LET hits == {j \in 1..Len(extractResponse.graphs) :
                        extractResponse.graphs[j].chunkId = chunks[p]}
         IN  IF chunkResult[p] = Null
             THEN hits = {}
             ELSE /\ Cardinality(hits) = 1
                  /\ \A j \in hits : extractResponse.graphs[j] = chunkResult[p]
    /\ \A j \in 1..Len(extractResponse.graphs) :
         \E p \in Positions : extractResponse.graphs[j].chunkId = chunks[p]
    /\ extractResponse.processed = Len(extractResponse.graphs)
    /\ extractResponse.total = Len(chunks)
    /\ extractResponse.processed <= extractResponse.total
    /\ extractResponse.total - extractResponse.processed = Cardinality(LostChunks)

\* C5 witness: a run of two batches returned with some chunks lost and some kept
C5_Witness ==
  /\ bPc = "returned"
  /\ "success" \in DOMAIN extractResponse
  /\ extractResponse.total > BATCH_SIZE
  /\ extractResponse.processed > 0
  /\ extractResponse.processed < extractResponse.total

\* C8: at most batchSize extraction requests are in flight at any moment,
\* and no request of a later batch has been issued while a request of an
\* earlier batch has not completed.
C8_BoundedSequentialBatches ==
  /\ Cardinality(InFlight) <= BATCH_SIZE
  /\ \A p, q \in Positions :
       (BatchIndex(p) < BatchIndex(q) /\ chunkState[q] # "unissued")
         => chunkState[p] = "done"

\* C8 witness: a request of the second batch is in flight
C8_Witness ==
  \E q \in Positions : BatchIndex(q) = 1 /\ chunkState[q] \in {"fetch", "body"}

\* C6: after any sequence of saveToDatabase calls no two rows of the
\* entities table share the pair (normalizeEntityName(name), lower-cased type).
C6_NoNormalizedDuplicates ==
  \A e1, e2 \in dbEntities :
    (normalizeEntityName(e1.name) = normalizeEntityName(e2.name)
       /\ toLowerCase(e1.type) = toLowerCase(e2.type))
      => e1 = e2

(***************************************************************************)
(* hybridSearch                                                            *)
(***************************************************************************)
Returned(c) == hs[c].pc = "returned"
Result(c) == hs[c].response.result
HerbIds(c) == {h.id : h \in Range(Result(c).graphResults.herbs)}
EffectIds(c) == {r.id : r \in Range(Result(c).graphResults.effects)}
TypeOfId(id) == EntityById(id).type
NameOfId(id) == EntityById(id).name
ConditionEntities(c) ==
  {i \in 1..Len(hs[c].queryEntities) :
     hs[c].queryEntities[i].type \in {S_SYMPTOM, S_DISEASE}}
ClaimedVerbs == {S_treats, S_reduces, S_alleviates, S_prevents, S_cures}
ConditionsReturned(c, i) ==
  UNION {x.ids : x \in {y \in hs[c].conditions : y.entity = i}}

C2_AsStated ==
  \A c \in Calls : hs[c].failed # {} => hs[c].pc # "rejected"

\* C2, amended: a failure of the query-entity extraction, of the journal
\* lookup, of an entity lookup, of a relation lookup or of the answer
\* generation never makes hybridSearch reject, and what it returns holds
\* what the other stages produced; hybridSearch rejects exactly when the
\* embedding of the query or the vector search has failed, and the route
\* then answers 500 "Failed to process query"
C2_OnlyVectorStageAborts ==
  \A c \in Calls :
    /\ hs[c].pc = "rejected" <=> hs[c].failed \cap {"embedding", "vector"} # {}
    /\ hs[c].pc = "rejected" =>
         hs[c].response = [status |-> 500, error |-> "Failed to process query"]
    /\ Returned(c) =>
         /\ hs[c].response.status = 200
         /\ Result(c).queryEntities = hs[c].queryEntities
         /\ Result(c).vectorResults = hs[c].vectorResults
         /\ Result(c).graphResults.herbs = hs[c].uniqueHerbs
         /\ Result(c).graphResults.allRelations = hs[c].relations

\* a search has returned with hits although a database lookup had failed
C2_Witness ==
  \E c \in Calls :
    /\ Returned(c)
    /\ hs[c].failed \cap {"journals", "entities", "relations"} # {}
    /\ Len(Result(c).vectorResults) > 0

\* C3: when the answer generation fails, hybridSearch is not rejected: it
\* returns with the answer "Unable to generate answer due to an error." and
\* with queryEntities, vectorResults, graphResults and summary holding what
\* steps 1 to 4 computed
C3_AnswerFailureMasked ==
  \A c \in Calls : "answer" \in hs[c].failed =>
    /\ Returned(c)
    /\ hs[c].response.status = 200
    /\ Result(c).answer = [text |-> FallbackAnswer, sources |-> <<>>]
    /\ Result(c).queryEntities = hs[c].queryEntities
    /\ Result(c).vectorResults = hs[c].vectorResults
    /\ Result(c).graphResults.herbs = hs[c].uniqueHerbs
    /\ Result(c).graphResults.allRelations = hs[c].relations
    /\ Result(c).graphResults.compounds =
         SelectSeq(hs[c].relations, LAMBDA r : r.target.type = S_COMPOUND)
    /\ Result(c).graphResults.effects =
         SelectSeq(hs[c].relations, LAMBDA r : r.target.type = S_EFFECT)
    /\ Result(c).summary =
         [totalChunks |-> Len(hs[c].vectorResults),
          totalHerbs |-> Len(hs[c].uniqueHerbs),
          totalCompounds |-> Len(Result(c).graphResults.compounds),
          totalEffects |-> Len(Result(c).graphResults.effects)]

\* the answer generation has failed after a search that found hits, herbs
\* and relations
C3_Witness ==
  \E c \in Calls :
    /\ "answer" \in hs[c].failed
    /\ Returned(c)
    /\ Len(Result(c).vectorResults) > 0
    /\ Len(Result(c).graphResults.herbs) > 0
    /\ Len(Result(c).graphResults.allRelations) > 0

C7_SingleLoad ==
  /\ pipelineLoads <= 1
  /\ \A c, d \in Calls :
       (hs[c].pipe # Null /\ hs[d].pipe # Null) => hs[c].pipe = hs[d].pipe

\* C9 as stated: the lookups of the query entities run concurrently, so
\* while step 3 is under way a lookup has been issued for every query entity
C9_AsStated ==
  \A c \in Calls :
    hs[c].pc = "graph" => hs[c].issued = 1..Len(hs[c].queryEntities)

\* C9, amended: the lookups of step 3 run one at a time in the order of the
\* query entities: at most one lookup is pending, and while a lookup of the
\* i-th query entity is pending, lookups have been issued for exactly the
\* first i query entities
C9_SequentialLookups ==
  \A c \in Calls :
    /\ Cardinality(hs[c].pending) <= 1
    /\ \A p \in hs[c].pending : hs[c].issued = 1..p.entity
    /\ hs[c].pc = "graph" <=> hs[c].pending # {}

\* the lookup of a second query entity is pending
C9_Witness ==
  \E c \in Calls : \E p \in hs[c].pending :
    /\ p.entity = 2
    /\ Len(hs[c].queryEntities) >= 2

FirstIndex(a, id) ==
  CHOOSE i \in 1..Len(a) : a[i].id = id /\ \A j \in 1..(i - 1) : a[j].id # id

\* C10: after step 3 the herbs hold no two records with the same id, every
\* id of an accumulated record once, each with the record of its first
\* occurrence, in the order of the first occurrences; the returned
\* graphResults.herbs are these herbs
C10_HerbsUniqueInFirstOrder ==
  \A c \in Calls : hs[c].pc \in {"expand", "answer", "returned"} =>
    LET a == hs[c].herbs
        u == hs[c].uniqueHerbs
    IN  /\ \A i, j \in 1..Len(u) : i # j => u[i].id # u[j].id
        /\ {h.id : h \in Range(u)} = {h.id : h \in Range(a)}
        /\ \A i \in 1..Len(u) : u[i] = a[FirstIndex(a, u[i].id)]
        /\ \A i, j \in 1..Len(u) :
             i < j => FirstIndex(a, u[i].id) < FirstIndex(a, u[j].id)
        /\ Returned(c) => Result(c).graphResults.herbs = u

\* a search has returned two herbs, one of which was found twice
C10_Witness ==
  \E c \in Calls :
    /\ Returned(c)
    /\ Len(hs[c].uniqueHerbs) >= 2
    /\ Len(hs[c].herbs) > Len(hs[c].uniqueHerbs)

AllRelationIds(c) == {r.id : r \in Range(Result(c).graphResults.allRelations)}
CompoundIds(c) == {r.id : r \in Range(Result(c).graphResults.compounds)}

\* the stored two-edge chains herb -> COMPOUND -> EFFECT from a returned herb
TwoHopChains(c) ==
  {<<r1, r2>> \in dbRelations \X dbRelations :
     /\ r1.source_id \in HerbIds(c)
     /\ TypeOfId(r1.target_id) = S_COMPOUND
     /\ r2.source_id = r1.target_id
     /\ TypeOfId(r2.target_id) = S_EFFECT}

Finished(c) == hs[c].pc \in {"returned", "rejected"}

C13_Idempotent ==
  fnStep = 2 => fnResult[2] = fnResult[1]

\* the key of the claim: the pair of normalized name and lower-cased type
KeyPair(e) == <<normalizeEntityName(e.name), toLowerCase(e.type)>>

\* C14 as stated: deduplicateEntities returns one entity for every distinct
\* pair (normalized name, lower-cased type) of the input, no two with the
\* same pair, each with the name of the first input entity of that pair and
\* the upper-cased type
C14_OnePerKey ==
  fnStep >= 1 =>
    LET in == fnArgs
        out == fnResult[1]
    IN  /\ {KeyPair(e) : e \in Range(out)} = {KeyPair(e) : e \in Range(in)}
        /\ \A i, j \in 1..Len(out) : i # j => KeyPair(out[i]) # KeyPair(out[j])
        /\ \A i \in 1..Len(out) :
             LET first == CHOOSE k \in 1..Len(in) :
                            /\ KeyPair(in[k]) = KeyPair(out[i])
                            /\ \A l \in 1..(k - 1) : KeyPair(in[l]) # KeyPair(out[i])
             IN  out[i] = [name |-> in[first].name, type |-> toUpperCase(in[first].type)]

Triple(r) == <<r.source, r.relation, r.target>>

\* the elements of a list whose triple occurs at no earlier position
RECURSIVE FirstOccurrences(_, _)
FirstOccurrences(list, seen) ==
  IF list = <<>> THEN <<>>
  ELSE IF Triple(Head(list)) \in seen THEN FirstOccurrences(Tail(list), seen)
  ELSE <<Head(list)>> \o FirstOccurrences(Tail(list), seen \cup {Triple(Head(list))})

\* C15 as stated: the output of deduplicateRelations is the input without
\* the relations whose literal (source, relation, target) triple occurred
\* earlier: the first occurrence of every distinct triple, in input order
C15_FirstOfEachTriple ==
  fnStep >= 1 => fnResult[1] = FirstOccurrences(fnArgs, {})

\* a relation the claim keeps: no empty field, and both ends equal, after
\* normalization, to the normalized name of some valid entity
ClaimKeeps(rel, validEntities) ==
  /\ Len(rel.source) > 0 /\ Len(rel.relation) > 0 /\ Len(rel.target) > 0
  /\ \E i \in 1..Len(validEntities) :
       normalizeEntityName(validEntities[i].name) = normalizeEntityName(rel.source)
  /\ \E i \in 1..Len(validEntities) :
       normalizeEntityName(validEntities[i].name) = normalizeEntityName(rel.target)

RECURSIVE KeptInOrder(_, _)
KeptInOrder(relations, validEntities) ==
  IF relations = <<>> THEN <<>>
  ELSE (IF ClaimKeeps(Head(relations), validEntities) THEN <<Head(relations)>> ELSE <<>>)
         \o KeptInOrder(Tail(relations), validEntities)

\* C16: filterRelationsByEntities returns, in input order, exactly the
\* relations whose source, relation and target are non-empty and whose
\* normalized source and normalized target are each the normalized name of
\* some valid entity, whatever the entity's type
C16_KeepsIffBothEndsKnown ==
  fnStep >= 1 =>
    fnResult[1] = KeptInOrder(fnArgs.relations, fnArgs.validEntities)

\* a relation was kept whose source equals an entity name only after
\* normalization, and another relation of the list was dropped
C16_Witness ==
  /\ fnStep = 1
  /\ Len(fnResult[1]) = 1
  /\ Len(fnArgs.relations) = 2
  /\ fnResult[1][1] = fnArgs.relations[2]
  /\ \A i \in 1..Len(fnArgs.validEntities) :
       fnArgs.validEntities[i].name # fnResult[1][1].source

\* the lab verbs the rule list of the specification names
StatedVerbs ==
  {
    <<"p","e","r","f","o","r","m">>, <<"c","o","n","d","u","c","t">>,
    <<"m","e","a","s","u","r","e">>, <<"o","b","s","e","r","v","e">>, <<"r","e","c","o","r","d">>,
    <<"c","o","l","l","e","c","t">>, <<"o","b","t","a","i","n">>, <<"p","r","e","p","a","r","e">>,
    <<"s","t","o","r","e">>
  }

\* the same with "carry out", which the regular expression also matches
CodeVerbs == StatedVerbs \cup {<<"c","a","r","r","y"," ","o","u","t">>}

HasAny(s, words) == \E w \in words : includes(s, w)

\* the ordered rules of filterEntity as pairs <<the rule matches, verdict>>,
\* for a given list of lab verbs, closed by the default
FilterRules(entity, verbs) ==
  LET name == toLowerCase(entity.name)
      type == toLowerCase(entity.type)
  IN  << <<Len(name) < 3, FALSE>>,
         <<name \in skipTerms, FALSE>>,
         <<isBareMeasurement(name), FALSE>>,
         <<name \in verbs, FALSE>>,
         <<HasAny(type, keepTypes), TRUE>>,
         <<includes(type, <<"d","o","s","a","g","e">>), TRUE>>,
         <<includes(type, <<"m","e","t","h","o","d">>) /\ HasAny(name, therapeuticMethodWords), TRUE>>,
         <<includes(type, <<"e","f","f","e","c","t">>) /\ HasAny(name, therapeuticEffectWords), TRUE>>,
         <<includes(type, <<"c","o","m","p","o","u","n","d">>) /\ Len(name) > 5, TRUE>>,
         <<includes(type, <<"m","e","c","h","a","n","i","s","m">>) /\ Len(name) < 15, FALSE>>,
         <<includes(type, <<"m","e","t","h","o","d">>) /\ HasAny(name, experimentalMethodWords), FALSE>>,
         <<TRUE, TRUE>> >>

FirstMatch(rules) == CHOOSE i \in 1..Len(rules) : rules[i][1] /\ \A j \in 1..(i - 1) : ~rules[j][1]

Verdict(entity, verbs) == FilterRules(entity, verbs)[FirstMatch(FilterRules(entity, verbs))][2]

\* C17 as stated: filterEntity returns the verdict of the first matching
\* rule of the ordered list in which the lab-verb rule names perform,
\* conduct, measure, observe, record, collect, obtain, prepare and store
C17_AsStated ==
  fnStep >= 1 => fnResult[1] = Verdict(fnArgs, StatedVerbs)

\* C17, amended: filterEntity returns the verdict of the first matching
\* rule of the ordered list in which the lab-verb rule names perform,
\* conduct, carry out, measure, observe, record, collect, obtain, prepare
\* and store, and accepts when no rule matches; a noise term such as
\* "temperature" is rejected whatever its type and "Curcuma longa" of type
\* PLANT is accepted
C17_FirstMatchingRule ==
  fnStep >= 1 =>
    /\ fnResult[1] = Verdict(fnArgs, CodeVerbs)
    /\ toLowerCase(fnArgs.name) = <<"t","e","m","p","e","r","a","t","u","r","e">> => ~fnResult[1]
    /\ (fnArgs.name = <<"C","u","r","c","u","m","a"," ","l","o","n","g","a">>
          /\ fnArgs.type = <<"P","L","A","N","T">>) => fnResult[1]

\* a noise term of an always-kept type was rejected
C17_Witness ==
  /\ fnStep = 1
  /\ fnArgs.name = <<"T","e","m","p","e","r","a","t","u","r","e">>
  /\ fnArgs.type = <<"P","L","A","N","T">>
  /\ fnResult[1] = FALSE

(***************************************************************************)
(* cleanAcademicText                                                       *)
(***************************************************************************)
\* String.prototype.indexOf: the 0-based index of the first occurrence, or -1
indexOf(s, sub) ==
  LET hits == SelectSeq(RxPositions(0, Len(s) - Len(sub)),
                        LAMBDA i : SubSeq(s, i + 1, i + Len(sub)) = sub)
  IN  IF hits = <<>> THEN 0 - 1 ELSE hits[1]

Cleaned == fnResult[15]
AtReferences == fnResult[11]
HeadingWithList == L_REFERENCES \o <<"\n">> \o L_Numbered
HeadingIndex(text) == indexOf(text, HeadingWithList)

MentionInBody ==
  /\ referencesIndex(fnArgs.text) > 0
  /\ referencesIndex(fnArgs.text) < indexOf(fnArgs.text, P_Outlook)
  /\ indexOf(fnArgs.text, P_Outlook) < HeadingIndex(fnArgs.text)

\* C25: when the first match of the heading pattern of step 12 lies in body text
\* that is followed by further body text and only later by the numbered
\* reference list, the body text after that first match is in the output of
\* cleanAcademicText.
C25_BodyAfterMentionKept ==
  (fnStep = 1 /\ MentionInBody) => includes(Cleaned, P_Outlook)

\* the lines that occur at least twice in the input, with a trimmed length
\* strictly between 5 and 150
RepeatedInputLines ==
  LET lines == splitLines(fnArgs.text)
  IN  { lines[i] : i \in { i \in 1..Len(lines) :
          /\ Len(trim(lines[i])) > 5
          /\ Len(trim(lines[i])) < 150
          /\ \E j \in 1..Len(lines) : j # i /\ lines[j] = lines[i] } }

\* C19: a line of the input that occurs at least twice and whose trimmed length
\* is strictly between 5 and 150 is no line of the output of cleanAcademicText,
\* wherever its occurrences are in the input.
C19_RepeatedLineGone ==
  fnStep = 1 =>
    \A line \in RepeatedInputLines : line \notin Range(splitLines(Cleaned))

(***************************************************************************)
(* parseJSONResponse                                                       *)
(***************************************************************************)
\* C20: for a valid JSON document from which only closing brackets and braces
\* were cut off its end, whatever the nesting of its objects and arrays,
\* parseJSONResponse returns the value of the whole document.
C20_TruncationRepaired ==
  fnStep = 1 => fnResult[1] = fnArgs.document.value

\* C26: two words of a JSON string that are separated by a run of carriage
\* returns, newlines, tabs and spaces in the content are separated by exactly
\* one space in the value parseJSONResponse returns.
C26_WhitespaceBecomesOneSpace ==
  fnStep = 1 => fnResult[1] = fnArgs.document.value

(***************************************************************************)
(* createChunks                                                            *)
(***************************************************************************)
ChunksReturned == cc.pc = "return"
DefaultParameters ==
  /\ cc.sentencesPerChunk = DefaultSentencesPerChunk
  /\ cc.overlapSentences = DefaultOverlapSentences
\* the 0-based index of the first sentence of chunk k, and the index after its
\* last one, under the default parameters
WindowStart(k) == (k - 1) * 9
WindowEnd(k) == RxMin(WindowStart(k) + 12, Len(cc.sentences))

\* C21: under sentencesPerChunk = 12 and overlapSentences = 3 the chunks have
\* the ids 1, 2, 3, ... in order, chunk k holds the sentences from index
\* (k-1)*9 on, every two consecutive chunks share exactly 3 sentences, and only
\* the last chunk may hold fewer than 12 sentences.
C21_OverlappingWindows ==
  (ChunksReturned /\ DefaultParameters) =>
    \A k \in 1..Len(cc.chunks) :
      /\ cc.chunks[k].id = k
      /\ WindowStart(k) < Len(cc.sentences)
      /\ cc.chunks[k].text
           = joinSpace(SubSeq(cc.sentences, WindowStart(k) + 1, WindowEnd(k)))
      /\ k < Len(cc.chunks) =>
           /\ WindowEnd(k) - WindowStart(k) = 12
           /\ RxMin(WindowEnd(k), WindowEnd(k + 1)) - WindowStart(k + 1) = 3

\* a text of 22 sentences has returned three chunks, the last one shorter
C21_Witness ==
  /\ ChunksReturned /\ DefaultParameters
  /\ Len(cc.sentences) = 22
  /\ Len(cc.chunks) = 3
  /\ WindowEnd(3) - WindowStart(3) = 4

Stride == stride(cc.sentencesPerChunk, cc.overlapSentences)
\* the window start positions 0, s, 2s, ... inside the list of sentences
StartsInside == {j \in 0..(Len(cc.sentences) - 1) : j % Stride = 0}
\* those of them before which no window has reached the end of the list
StartsBeforeEnd ==
  {j \in StartsInside : j = 0 \/ (j - Stride) + cc.sentencesPerChunk < Len(cc.sentences)}
ChunkAt(k) ==
  joinSpace(slice(cc.sentences, (k - 1) * Stride, (k - 1) * Stride + cc.sentencesPerChunk))

\* C24 as stated: there is one chunk for every window start position 0, s,
\* 2s, ... that lies inside the list of qualifying sentences.
C24_AsStated ==
  (ChunksReturned /\ Stride >= 1) => Len(cc.chunks) = Cardinality(StartsInside)

\* C24: there is one chunk for every window start position 0, s, 2s, ... up to
\* and including the first one whose window reaches the end of the list of
\* qualifying sentences (start + sentencesPerChunk >= their number), chunk k
\* holding the window that starts at (k-1)*s, and no chunk for a later start.
C24_StopsAtFirstWindowReachingEnd ==
  (ChunksReturned /\ Stride >= 1) =>
    /\ Len(cc.chunks) = Cardinality(StartsBeforeEnd)
    /\ \A k \in 1..Len(cc.chunks) : cc.chunks[k].text = ChunkAt(k)

\* a call has returned without a chunk for a start position inside the list
C24_Witness ==
  /\ ChunksReturned /\ Stride >= 1
  /\ Len(cc.chunks) >= 2
  /\ Cardinality(StartsInside) > Len(cc.chunks)

ExtractionReturned == bPc = "returned" /\ extractResponse # Null /\ "graphs" \in DOMAIN extractResponse
FailedChunks == {p \in Positions : chunkState[p] = "done" /\ chunkResult[p] = Null}

\* C22: every chunk causes exactly one request to the extraction collaborator:
\* no chunk is ever requested a second time, whatever became of its request,
\* a chunk that has settled was requested once, and when the run has returned
\* every chunk was requested once.
C22_OneRequestPerChunk ==
  \A p \in Positions :
    /\ requests[p] <= 1
    /\ chunkState[p] # "unissued" => requests[p] = 1
    /\ ExtractionReturned => requests[p] = 1

\* a run over two batches has returned with a chunk whose extraction failed
C22_Witness ==
  /\ ExtractionReturned
  /\ Len(chunks) > BATCH_SIZE
  /\ FailedChunks # {}
  /\ \A p \in Positions : requests[p] = 1

\* the position of the chunk a result belongs to
PositionOf(result) == CHOOSE p \in Positions : chunks[p] = result.chunkId

\* C29: the results are an order-preserving subsequence of the input chunks:
\* every result belongs to an input chunk, and a result that comes later in
\* the list belongs to a chunk that comes later in the input, so that no
\* chunkId occurs twice, in whatever order the requests of a batch completed.
C29_ResultsInChunkOrder ==
  /\ \A j \in 1..Len(graphs) : \E p \in Positions : chunks[p] = graphs[j].chunkId
  /\ \A j, k \in 1..Len(graphs) :
       j < k => PositionOf(graphs[j]) < PositionOf(graphs[k])
  /\ ExtractionReturned => extractResponse.graphs = graphs

\* a run in which a request completed before that of an earlier chunk has
\* returned the results of both chunks of a batch
C29_Witness ==
  /\ ExtractionReturned
  /\ overtaken
  /\ Len(extractResponse.graphs) >= 3
  /\ \E j \in 1..(Len(graphs) - 1) :
       PositionOf(graphs[j]) <= BATCH_SIZE /\ PositionOf(graphs[j + 1]) <= BATCH_SIZE

(***************************************************************************)
(* extractGraphFromChunk: the result                                       *)
(***************************************************************************)
ExtractResult == fnResult[1]
SurvivingEntities == SelectSeq(fnArgs.content.entities, filterEntity)

\* C23: a result of extractGraphFromChunk, from parsed JSON or from the regex
\* fallback, has at most 15 entities, each of which satisfies filterEntity, and
\* every relation of it has non-empty fields and both normalized endpoints among
\* the normalized names of those entities; the fallback answers null exactly
\* when no entity of the content survives the filter.
C23_FilteredAndLimited ==
  fnStep = 1 =>
    /\ ExtractResult # Null =>
         /\ ExtractResult.chunkId = fnArgs.chunkId
         /\ Len(ExtractResult.entities) <= MaxEntitiesPerChunk
         /\ \A e \in Range(ExtractResult.entities) : filterEntity(e)
         /\ \A rel \in Range(ExtractResult.relations) :
              /\ rel.source # <<>> /\ rel.relation # <<>> /\ rel.target # <<>>
              /\ \E e \in Range(ExtractResult.entities) :
                   normalizeEntityName(e.name) = normalizeEntityName(rel.source)
              /\ \E e \in Range(ExtractResult.entities) :
                   normalizeEntityName(e.name) = normalizeEntityName(rel.target)
    /\ fnArgs.content.parses => ExtractResult # Null
    /\ ~fnArgs.content.parses => (ExtractResult = Null <=> SurvivingEntities = <<>>)

\* a content with more surviving entities than the limit and a relation to the
\* entity after the limit has given a result with 15 entities and a relation
C23_Witness ==
  /\ fnStep = 1
  /\ ExtractResult # Null
  /\ Len(SurvivingEntities) > MaxEntitiesPerChunk
  /\ Len(SurvivingEntities) < Len(fnArgs.content.entities)
  /\ Len(ExtractResult.entities) = MaxEntitiesPerChunk
  /\ RelationPool[3] \in Range(fnArgs.content.relations)
  /\ Len(ExtractResult.relations) = 2

(***************************************************************************)
(* UploadPage                                                              *)
(***************************************************************************)
\* C27: whenever Upload to Database can be triggered on the upload page, the
\* vectors and the graphs held in state were computed from the chunks held in
\* state.
C27_VectorsAndGraphsOfTheChunks ==
  UploadToDatabaseShown =>
    /\ page.vectors = page.chunks
    /\ page.graphs = page.chunks

(***************************************************************************)
(* saveToDatabase: what a failed call leaves behind                        *)
(***************************************************************************)
\* a step in which saveToDatabase throws and the route answers 500
SaveThrows ==
  /\ sPc # "idle"
  /\ sPc' = "idle"
  /\ saveResponse' # Null
  /\ "error" \in DOMAIN saveResponse'

\* C30: when saveToDatabase fails at any step, no journal, embedding or
\* relation row of the journal of that call remains, and after a failed first
\* call, before which the tables were empty, all four tables are empty.
C30_AllOrNothing ==
  [][SaveThrows =>
       /\ sJournal \notin dbJournals'
       /\ \A row \in dbEmbeddings' : row.journal_id # sJournal
       /\ \A row \in dbRelations' : row.journal_id # sJournal
       /\ saves = 1 => /\ dbJournals' = {} /\ dbEmbeddings' = {}
                       /\ dbEntities' = {} /\ dbRelations' = {}]_vars

====
